---- MODULE Spec2Model ----
(***************************************************************************)
(* Tick engine of behavior_tree_lite.h: BehaviorNodeContainer::tick, the   *)
(* control nodes, SubtreeNode and the Context port layer, driven through   *)
(* tick_node as build_and_run (main.cc) does.                              *)
(*                                                                         *)
(* Strings that the program interprets (blackboard values, literals) are   *)
(* sequences of one-character strings; names that are only compared        *)
(* (ports, variables, node type names) are TLA+ strings.                   *)
(***************************************************************************)
EXTENDS Integers, Sequences, FiniteSets, TLC

\* ------------------------------------------------------------------ bounds
\* Number of leaf children under the control node of a ControlTree.
NumLeaves == 3

\* Largest count that the trees give to port n of a Repeat or a Retry.
MaxCount == 3

\* Number of tick_node calls that are counted.
MaxTicks == 5

\* ------------------------------------------------------------ basic types
\* enum class BehaviorResult
BehaviorResult == {"Success", "Fail", "Running"}

\* The exception classes thrown at tick time.
Exceptions ==
  {"undefined_port_error", "write_input_port_error",
   "write_to_literal_error", "invalid_count_error"}

IsErr(r) == r \in Exceptions

\* std::nullopt
nullopt == "nullopt"

\* nullptr for Context::blackboard_map / Context::child_nodes
nullptr == 0

\* An empty std::unordered_map.
EmptyMap == [k \in {} |-> <<>>]

\* m[k] = v on a std::unordered_map (operator[] followed by assignment).
MapPut(m, k, v) == [x \in (DOMAIN m) \cup {k} |-> IF x = k THEN v ELSE m[x]]

\* BlackboardValue = std::variant<std::pair<std::string, PortType>, std::string>
\* index 0: a variable reference (first = name, second = direction)
\* index 1: a literal
Variable(name, dir) == [index |-> 0, first |-> name, second |-> dir, literal |-> <<>>]

Literal(text) == [index |-> 1, first |-> "", second |-> "Input", literal |-> text]

\* PortSpec { ty, key }
PortSpec(ty, key) == [ty |-> ty, key |-> key]

\* A BehaviorNodeContainer: name, node (the BehaviorNode class it owns),
\* blackboard_map, child_nodes (ids of the owned children); params is the
\* SubtreeNode::params of the owned node (empty for the other classes).
Container(name, node, bbmap, children, params) ==
  [name |-> name, node |-> node, blackboard_map |-> bbmap,
   child_nodes |-> children, params |-> params]

\* A user leaf has no ports and no children.
LeafContainer == Container("Leaf", "Leaf", EmptyMap, <<>>, <<>>)

\* name -> class, as defaultRegistry() registers them.
defaultRegistry ==
  [name \in {"Sequence", "ReactiveSequence", "Fallback", "ReactiveFallbackStar",
             "ForceSuccess", "ForceFailure", "Inverter", "Repeat", "Retry",
             "true", "false", "SetBool", "if"} |->
     CASE name = "Sequence" -> "SequenceNode"
       [] name = "ReactiveSequence" -> "ReactiveSequenceNode"
       [] name = "Fallback" -> "FallbackNode"
       [] name = "ReactiveFallbackStar" -> "ReactiveFallbackNode"
       [] name = "ForceSuccess" -> "ForceSuccessNode"
       [] name = "ForceFailure" -> "ForceFailureNode"
       [] name = "Inverter" -> "InverterNode"
       [] name = "Repeat" -> "RepeatNode"
       [] name = "Retry" -> "RetryNode"
       [] name = "true" -> "TrueNode"
       [] name = "false" -> "FalseNode"
       [] name = "SetBool" -> "SetBoolNode"
       [] name = "if" -> "IfNode"]

\* ------------------------------------------------------------------ atoi
Digits == <<"0", "1", "2", "3", "4", "5", "6", "7", "8", "9">>

IsDigit(c) == \E i \in 1..10 : Digits[i] = c

DigitVal(c) == (CHOOSE i \in 1..10 : Digits[i] = c) - 1

IsSpace(c) == c \in {" ", "\t", "\n", "\r"}

RECURSIVE AtoiDigits(_, _, _)
AtoiDigits(s, i, acc) ==
  IF i <= Len(s) /\ IsDigit(s[i])
  THEN AtoiDigits(s, i + 1, acc * 10 + DigitVal(s[i]))
  ELSE acc

RECURSIVE SkipSpace(_, _)
SkipSpace(s, i) == IF i <= Len(s) /\ IsSpace(s[i]) THEN SkipSpace(s, i + 1) ELSE i

\* std::atoi: leading whitespace, an optional sign, then decimal digits up
\* to the first other character; 0 when there are no digits.
atoi(s) ==
  LET i == SkipSpace(s, 1) IN
    IF i <= Len(s) /\ s[i] = "-" THEN 0 - AtoiDigits(s, i + 1, 0)
    ELSE IF i <= Len(s) /\ s[i] = "+" THEN AtoiDigits(s, i + 1, 0)
    ELSE AtoiDigits(s, i, 0)

\* ----------------------------------------------------------- the parser
\* A std::string_view is the sequence of its characters.  The views that a
\* parser derives from its input i are suffixes of i, so r.data() - i.data()
\* is Len(i) - Len(r).  Names and texts that the parser yields are sequences
\* of characters too.  A local of the source that is read more than once is
\* the parameter of a local operator applied to its initialiser.

\* std::string_view::npos, the default count of substr.
npos == 2147483647

\* std::string_view::substr(pos, n) for pos <= size(): the rlen characters
\* from pos on, rlen the smaller of n and size() - pos.  With pos > size()
\* substr throws std::out_of_range, which the callers below test for where
\* the source does not exclude it.
substr(s, pos, n) ==
  SubSeq(s, pos + 1, pos + (IF n < Len(s) - pos THEN n ELSE Len(s) - pos))

\* IResult<T> holding Res<T>, the pair (first, second): variant index 0.
Res(first, second) == [index |-> 0, first |-> first, second |-> second, error |-> <<>>]

\* IResult<T> holding the error message, the concatenation of the strings of
\* e: variant index 1.
Error(e) == [index |-> 1, first |-> <<>>, second |-> <<>>, error |-> e]

\* No IResult: the call threw std::out_of_range.
out_of_range == [index |-> -1, first |-> <<>>, second |-> <<>>, error |-> <<"std::out_of_range">>]

\* isalpha in the "C" locale; isalnum is isalpha or isdigit.
isalpha(c) ==
  c \in {"a", "b", "c", "d", "e", "f", "g", "h", "i", "j", "k", "l", "m",
         "n", "o", "p", "q", "r", "s", "t", "u", "v", "w", "x", "y", "z",
         "A", "B", "C", "D", "E", "F", "G", "H", "I", "J", "K", "L", "M",
         "N", "O", "P", "Q", "R", "S", "T", "U", "V", "W", "X", "Y", "Z"}

\* space: the infallible space skipper.
space(i) ==
  LET Skipped(r) == Res(r, substr(i, 0, Len(i) - Len(r)))
  IN Skipped(substr(i, SkipSpace(i, 1) - 1, npos))

\* identifier, the while loop: the view r after it.
RECURSIVE identifier_while(_)
identifier_while(r) ==
  IF Len(r) # 0 /\ (isalpha(r[1]) \/ IsDigit(r[1]) \/ r[1] = "_")
  THEN identifier_while(substr(r, 1, npos))
  ELSE r

\* identifier without the call of space.
identifier_NoSpace(i) ==
  LET Ret(r) == Res(r, substr(i, 0, Len(i) - Len(r)))
  IN IF Len(i) = 0 \/ (~isalpha(i[1]) /\ i[1] # "_")
     THEN Error(<<"Expected an identifier">>)
     ELSE Ret(identifier_while(i))

\* identifier
identifier(i0) ==
  LET Ret(i, r) == Res(r, substr(i, 0, Len(i) - Len(r)))
      Skipped(i) ==
        IF Len(i) = 0 \/ (~isalpha(i[1]) /\ i[1] # "_")
        THEN Error(<<"Expected an identifier">>)
        ELSE Ret(i, identifier_while(i))
  IN Skipped(space(i0).first)

\* match_char<C>
match_char(C, i0) ==
  LET Skipped(i) ==
        IF Len(i) = 0 \/ i[1] # C
        THEN Error(<<"Expected token '", C, "'">>)
        ELSE Res(substr(i, 1, npos), substr(i, 0, 1))
  IN Skipped(space(i0).first)

\* unmatch_char<C>: on an input that is empty after the spaces, i.substr(1)
\* throws.
unmatch_char(C, i0) ==
  LET Skipped(i) ==
        IF Len(i) # 0 /\ i[1] = C
        THEN Error(<<"Expected token '", C, "'">>)
        ELSE IF 1 > Len(i) THEN out_of_range
        ELSE Res(substr(i, 1, npos), substr(i, 0, 1))
  IN Skipped(space(i0).first)

\* string_literal, the while loop: Res(r, <<>>) with the view r after it,
\* or the exception that unmatch_char threw.
RECURSIVE string_literal_while(_)
string_literal_while(r) ==
  LET Unmatched(res2) ==
        IF res2.index = 1 THEN Res(r, <<>>)
        ELSE IF res2.index # 0 THEN res2
        ELSE string_literal_while(res2.first)
  IN IF Len(r) = 0 THEN Res(r, <<>>) ELSE Unmatched(unmatch_char("\"", r))

\* string_literal: with r empty after the loop, r.substr(1) throws.
string_literal(i0) ==
  LET Ret(i, w) ==
        IF w.index # 0 THEN w
        ELSE IF 1 > Len(w.first) THEN out_of_range
        ELSE Res(substr(w.first, 1, npos), substr(i, 1, Len(i) - Len(w.first) - 1))
      Opened(i, res2) ==
        IF res2.index # 0 THEN res2 ELSE Ret(i, string_literal_while(substr(i, 1, npos)))
      Skipped(i) == Opened(i, match_char("\"", i))
  IN Skipped(space(i0).first)

\* struct PortMap
PortMap(ty, blackboard_literal, node_port, blackboard_value) ==
  [ty |-> ty, blackboard_literal |-> blackboard_literal, node_port |-> node_port,
   blackboard_value |-> blackboard_value]

\* port_map: Arrow is the chain of tests of the arrow at the start of r, the
\* direction and the length of the arrow taken, length 0 when none is.
port_map(i) ==
  LET Arrow(r) ==
        IF substr(r, 0, 2) = <<"<", "-">> THEN [ty |-> "Input", len |-> 2]
        ELSE IF substr(r, 0, 2) = <<"-", ">">> THEN [ty |-> "Output", len |-> 2]
        ELSE IF substr(r, 0, 3) = <<"<", "-", ">">> THEN [ty |-> "InOut", len |-> 3]
        ELSE [ty |-> "", len |-> 0]
      Ret(pair, ty, res2, res3) ==
        IF res2.index = 0
        THEN Res(res2.first, PortMap(ty, TRUE, pair.second, Literal(res2.second)))
        ELSE IF res2.index # 1 THEN res2
        ELSE IF res3.index # 0 THEN res3
        ELSE Res(res3.first, PortMap(ty, FALSE, pair.second, Variable(res3.second, ty)))
      Value(pair, ty, next) == Ret(pair, ty, string_literal(next), identifier(next))
      Typed(pair, r, arrow) ==
        IF arrow.len = 0 THEN Error(<<"Expected \"<-\", \"->\" or \"<->\"">>)
        ELSE Value(pair, arrow.ty, substr(r, arrow.len, npos))
      Spaced(pair, r) == Typed(pair, r, Arrow(r))
      Named(res) == IF res.index # 0 THEN res ELSE Spaced(res, space(res.first).first)
  IN Named(identifier(i))

\* port_maps: the while loop from the view r on, ret the vector built so far.
RECURSIVE port_maps(_, _)
port_maps(r, ret) ==
  LET Comma(pair, res4) ==
        IF res4.index # 0 THEN Res(pair.first, Append(ret, pair.second))
        ELSE port_maps(res4.first, Append(ret, pair.second))
      Mapped(res) ==
        IF res.index = 1 THEN Res(r, ret)
        ELSE IF res.index # 0 THEN res
        ELSE Comma(res, match_char(",", res.first))
  IN IF Len(r) = 0 THEN Res(r, ret) ELSE Mapped(port_map(r))

\* port_maps_parens
port_maps_parens(i0) ==
  LET Closed(res3, res4) == IF res4.index # 0 THEN res4 ELSE Res(res4.first, res3.second)
      Mapped(res3) == IF res3.index # 0 THEN res3 ELSE Closed(res3, match_char(")", res3.first))
      Opened(res2) == IF res2.index # 0 THEN res2 ELSE Mapped(port_maps(res2.first, <<>>))
  IN Opened(match_char("(", space(i0).first))

\* struct TreeDef
TreeDef(name, port_maps_, children, vars_) ==
  [name |-> name, port_maps |-> port_maps_, children |-> children, vars |-> vars_]

\* A TreeElem, std::variant<TreeDef, VarDef, VarAssign>, is the record of
\* its index and its value; a VarDef is the record of its name and its init,
\* a std::optional.

\* tree_def_with_ports
tree_def_with_ports(name, init) ==
  TreeDef(<<"S", "e", "t", "B", "o", "o", "l">>,
          <<PortMap("Input", TRUE, <<"v", "a", "l", "u", "e">>, Literal(init)),
            PortMap("Output", FALSE, <<"o", "u", "t", "p", "u", "t">>, Variable(name, "Output"))>>,
          <<>>, <<>>)

\* tree_def_from_elems: a child for each TreeDef and each VarDef with an
\* initialiser, in the order of the elements (pushed are the elements that
\* push a child, var_defs those that push a variable).
tree_def_from_elems(name, port_maps_, elems) ==
  LET Ret(pushed, var_defs) ==
        TreeDef(name, port_maps_,
                [k \in 1..Len(pushed) |->
                   IF pushed[k].index = 0 THEN pushed[k].value
                   ELSE tree_def_with_ports(pushed[k].value.name, pushed[k].value.init.value)],
                [k \in 1..Len(var_defs) |-> var_defs[k].value])
  IN Ret(SelectSeq(elems, LAMBDA e : e.index = 0 \/ (e.index = 1 /\ e.value.init.has_value)),
         SelectSeq(elems, LAMBDA e : e.index = 1))

\* var_decl: yields a TreeElem holding a VarDef.
var_decl(i0) ==
  LET Ret(next, name, has_value, init) ==
        Res(next, [index |-> 1,
                   value |-> [name |-> name,
                              init |-> [has_value |-> has_value, value |-> init]]])
      Initialised(name, init_res2) ==
        IF init_res2.index # 0 THEN init_res2
        ELSE IF init_res2.second # <<"t", "r", "u", "e">> /\ init_res2.second # <<"f", "a", "l", "s", "e">>
        THEN Error(<<"true or false expected as the initializer">>)
        ELSE Ret(init_res2.first, name, TRUE, init_res2.second)
      Spaced(name, next) ==
        IF substr(next, 0, 1) # <<"=">> THEN Ret(next, name, FALSE, <<>>)
        ELSE Initialised(name, identifier(substr(next, 1, npos)))
      Named(res) == IF res.index # 0 THEN res ELSE Spaced(res.second, space(res.first).first)
  IN Named(identifier(space(i0).first))

\* The parsers below call each other: call(fn, i) is the call of the parser
\* named fn on the view i.

\* tree_children: the while loop as a recursion, the elements parsed from
\* the view r on.
tree_children(r, call(_, _)) ==
  LET Ret(pair, rest) ==
        IF rest.index # 0 THEN rest ELSE Res(rest.first, <<pair.second>> \o rest.second)
      Child(res) ==
        IF res.index = 1 THEN Res(r, <<>>)
        ELSE IF res.index # 0 THEN res
        ELSE Ret(res, call("tree_children", res.first))
  IN IF Len(r) = 0 THEN Res(r, <<>>) ELSE Child(call("parse_tree_child", r))

\* tree_children_block
tree_children_block(i0, call(_, _)) ==
  LET Closed(res3, res4) == IF res4.index # 0 THEN res4 ELSE Res(res4.first, res3.second)
      Children(res3) ==
        IF res3.index # 0 THEN res3 ELSE Closed(res3, match_char("}", res3.first))
      Opened(res2) ==
        IF res2.index # 0 THEN res2 ELSE Children(call("tree_children", res2.first))
  IN Opened(match_char("{", space(i0).first))

\* parse_tree_node
parse_tree_node(i, call(_, _)) ==
  LET Ret(name, port_maps_, next, res2) ==
        IF res2.index = 0
        THEN Res(res2.first, tree_def_from_elems(name, port_maps_, res2.second))
        ELSE IF res2.index # 1 THEN res2
        ELSE Res(next, tree_def_from_elems(name, port_maps_, <<>>))
      Block(name, port_maps_, next) ==
        Ret(name, port_maps_, next, call("tree_children_block", next))
      Ports(r, ports_res) ==
        IF ports_res.index = 0 THEN Block(r.second, ports_res.second, ports_res.first)
        ELSE IF ports_res.index # 1 THEN ports_res
        ELSE Block(r.second, <<>>, r.first)
      Named(res) ==
        IF res.index # 0 THEN Error(<<"Expected node name: ">> \o res.error)
        ELSE Ports(res, port_maps_parens(res.first))
  IN Named(identifier(i))

\* parse_condition_node with the branches wrapped in Fallback nodes.
condition_branch_Fallback(elems) == tree_def_from_elems(<<"F", "a", "l", "l", "b", "a", "c", "k">>, <<>>, elems)

\* parse_condition_node: true_br and false_br, the synthetic node of a branch.
condition_branch(elems) == tree_def_from_elems(<<"S", "e", "q", "u", "e", "n", "c", "e">>, <<>>, elems)

\* parse_condition_node
parse_condition_node(i, call(_, _)) ==
  LET False_br(children, res6) ==
        IF res6.index # 0 THEN res6
        ELSE Res(res6.first,
                 TreeDef(<<"i", "f">>, <<>>, Append(children, condition_branch(res6.second)), <<>>))
      Else(children, next) ==
        IF substr(next, 0, 4) # <<"e", "l", "s", "e">> THEN Res(next, TreeDef(<<"i", "f">>, <<>>, children, <<>>))
        ELSE False_br(children, call("tree_children_block", substr(next, 4, npos)))
      True_br(condition, next, res5) ==
        IF res5.index = 0
        THEN Else(<<condition, condition_branch(res5.second)>>, space(res5.first).first)
        ELSE IF res5.index # 1 THEN res5
        ELSE Else(<<condition>>, space(next).first)
      Closed(condition, res4) ==
        IF res4.index # 0 THEN res4
        ELSE True_br(condition, res4.first, call("tree_children_block", res4.first))
      Condition(res3) ==
        IF res3.index # 0 THEN res3 ELSE Closed(res3.second, match_char(")", res3.first))
      Opened(res2) ==
        IF res2.index # 0 THEN res2 ELSE Condition(call("parse_tree_node", res2.first))
  IN Opened(match_char("(", space(i).first))

\* parse_tree_child: yields a TreeElem.
parse_tree_child(i, call(_, _)) ==
  LET Elem(res2) ==
        IF res2.index # 0 THEN res2 ELSE Res(res2.first, [index |-> 0, value |-> res2.second])
      Named(res) ==
        IF res.index # 0 THEN res
        ELSE IF res.second = <<"i", "f">> THEN Elem(call("parse_condition_node", res.first))
        ELSE IF res.second = <<"v", "a", "r">> THEN var_decl(res.first)
        ELSE Elem(call("parse_tree_node", i))
  IN Named(identifier(i))

\* The call of the parser named fn on the view i.
RECURSIVE parser(_, _)
parser(fn, i) ==
  CASE fn = "tree_children" -> tree_children(i, parser)
    [] fn = "tree_children_block" -> tree_children_block(i, parser)
    [] fn = "parse_tree_node" -> parse_tree_node(i, parser)
    [] fn = "parse_condition_node" -> parse_condition_node(i, parser)
    [] fn = "parse_tree_child" -> parse_tree_child(i, parser)
    [] fn = "identifier" -> identifier(i)
    [] fn = "string_literal" -> string_literal(i)
    [] fn = "port_map" -> port_map(i)

\* ------------------------------------------------------------ loaded trees
\* A loaded tree is a sequence of containers; a container's id is its index,
\* the root has id 1, and child_nodes holds the ids of the owned children.

\* Number of children the trees give a node of the kind: NumLeaves to the
\* sequences and fallbacks, condition/then/else to "if", one to a decorator.
Arity(kind) ==
  CASE kind \in {"Sequence", "ReactiveSequence", "Fallback", "ReactiveFallbackStar"} -> NumLeaves
    [] kind = "if" -> 3
    [] OTHER -> 1

\* tree main = Sequence { <kind>(n <- "2") { Leaf ... Leaf }  Leaf }
ControlTree(kind) ==
  <<Container("Sequence", defaultRegistry["Sequence"], EmptyMap, <<2, Arity(kind) + 3>>, <<>>),
    Container(kind, defaultRegistry[kind], [p \in {"n"} |-> Literal(<<"2">>)],
              [i \in 1..Arity(kind) |-> i + 2], <<>>)>>
  \o [i \in 1..(Arity(kind) + 1) |-> LeafContainer]

\* tree main = Sequence { Leaf  Fallback { Leaf  Inverter { SetBool(value <- "1") } }
\*                        Repeat { Leaf }  Leaf }
\* SetBool has no output port and Repeat has no n port: both raise when ticked.
ErrTree ==
  <<Container("Sequence", "SequenceNode", EmptyMap, <<2, 3, 7, 9>>, <<>>),
    LeafContainer,
    Container("Fallback", "FallbackNode", EmptyMap, <<4, 5>>, <<>>),
    LeafContainer,
    Container("Inverter", "InverterNode", EmptyMap, <<6>>, <<>>),
    Container("SetBool", "SetBoolNode", [p \in {"value"} |-> Literal(<<"1">>)], <<>>, <<>>),
    Container("Repeat", "RepeatNode", EmptyMap, <<8>>, <<>>),
    LeafContainer,
    LeafContainer>>

\* tree main = Sequence { Leaf  SubTree(p <-> x, q -> y)  SetBool(value <- "9", output -> x) }
\* tree SubTree(inout p, out q) = Sequence {
\*     SetBool(value <- "5", output -> q)  SetBool(value <- "6", output -> loc)
\*     Leaf  SetBool(value <- p) }
\* The last SetBool of SubTree raises when p has a value in the local blackboard.
SubtreeTree ==
  <<Container("Sequence", "SequenceNode", EmptyMap, <<2, 3, 9>>, <<>>),
    LeafContainer,
    Container("SubTree", "SubtreeNode",
              [p \in {"p", "q"} |->
                 IF p = "p" THEN Variable("x", "InOut") ELSE Variable("y", "Output")],
              <<4>>, <<PortSpec("InOut", "p"), PortSpec("Output", "q")>>),
    Container("Sequence", "SequenceNode", EmptyMap, <<5, 6, 7, 8>>, <<>>),
    Container("SetBool", "SetBoolNode",
              [p \in {"value", "output"} |->
                 IF p = "value" THEN Literal(<<"5">>) ELSE Variable("q", "Output")],
              <<>>, <<>>),
    Container("SetBool", "SetBoolNode",
              [p \in {"value", "output"} |->
                 IF p = "value" THEN Literal(<<"6">>) ELSE Variable("loc", "Output")],
              <<>>, <<>>),
    LeafContainer,
    Container("SetBool", "SetBoolNode", [p \in {"value"} |-> Variable("p", "Input")],
              <<>>, <<>>),
    Container("SetBool", "SetBoolNode",
              [p \in {"value", "output"} |->
                 IF p = "value" THEN Literal(<<"9">>) ELSE Variable("x", "Output")],
              <<>>, <<>>)>>

\* tree main = Sequence { Leaf  SetBool(value <- "7", output -> x)
\*                        SetBool(value <- x, output -> y)  Leaf }
\* The second SetBool reads the variable that the first one writes.
BlackboardTree ==
  <<Container("Sequence", "SequenceNode", EmptyMap, <<2, 3, 4, 5>>, <<>>),
    LeafContainer,
    Container("SetBool", "SetBoolNode",
              [p \in {"value", "output"} |->
                 IF p = "value" THEN Literal(<<"7">>) ELSE Variable("x", "Output")],
              <<>>, <<>>),
    Container("SetBool", "SetBoolNode",
              [p \in {"value", "output"} |->
                 IF p = "value" THEN Variable("x", "Input") ELSE Variable("y", "Output")],
              <<>>, <<>>),
    LeafContainer>>

\* tree main = Sequence { <kind>(n <- text) { Leaf }  Leaf }, kind being
\* Repeat or Retry.
CountTree(kind, text) ==
  [ControlTree(kind) EXCEPT ![2].blackboard_map = [p \in {"n"} |-> Literal(text)]]

\* The texts of port n: the counts 1..MaxCount, zero, a negative count, and
\* texts that are not decimal integers.
CountTexts ==
  {<<Digits[N + 1]>> : N \in 1..MaxCount} \cup {<<"0">>, <<"-", "1">>, <<"x">>, <<"2", "x">>}

\* tree main = Sequence { CountDown(count <- "3")  Print(input <- "Boom!") }
\* with CountDown and Print as build_and_run registers them.
CountDownTree ==
  <<Container("Sequence", "SequenceNode", EmptyMap, <<2, 3>>, <<>>),
    Container("CountDown", "CountDownNode", [p \in {"count"} |-> Literal(<<"3">>)],
              <<>>, <<>>),
    Container("Print", "PrintNode",
              [p \in {"input"} |-> Literal(<<"B", "o", "o", "m", "!">>)], <<>>, <<>>)>>

\* tree main = Sequence { if (Leaf) { Leaf }  Leaf }: an if without else.
IfTree ==
  <<Container("Sequence", "SequenceNode", EmptyMap, <<2, 5>>, <<>>),
    Container("if", "IfNode", EmptyMap, <<3, 4>>, <<>>),
    LeafContainer, LeafContainer, LeafContainer>>

\* tree main = Sequence { Inverter { Inverter { Leaf } }  Inverter  Leaf }:
\* two stacked Inverters over a user node, and an Inverter without a child.
InverterTree ==
  <<Container("Sequence", "SequenceNode", EmptyMap, <<2, 5, 6>>, <<>>),
    Container("Inverter", "InverterNode", EmptyMap, <<3>>, <<>>),
    Container("Inverter", "InverterNode", EmptyMap, <<4>>, <<>>),
    LeafContainer,
    Container("Inverter", "InverterNode", EmptyMap, <<>>, <<>>),
    LeafContainer>>

\* tree main = Sequence { if (Leaf) { Leaf Leaf } else { Leaf Leaf } }, the
\* branches being the Sequence nodes that parse_condition_node makes.
IfElseTree ==
  <<Container("Sequence", "SequenceNode", EmptyMap, <<2>>, <<>>),
    Container("if", "IfNode", EmptyMap, <<3, 4, 7>>, <<>>),
    LeafContainer,
    Container("Sequence", "SequenceNode", EmptyMap, <<5, 6>>, <<>>),
    LeafContainer, LeafContainer,
    Container("Sequence", "SequenceNode", EmptyMap, <<8, 9>>, <<>>),
    LeafContainer, LeafContainer>>

\* tree main = Sequence { SetBool(value <- "7", output -> x)  Leaf  SubTree(p <- x) }
\* tree SubTree(in p) = Sequence { SetBool(value <- "6", output -> loc)  Leaf }
\* A tick that resumes at Leaf or at SubTree does not write x.
PersistTree ==
  <<Container("Sequence", "SequenceNode", EmptyMap, <<2, 3, 4>>, <<>>),
    Container("SetBool", "SetBoolNode",
              [p \in {"value", "output"} |->
                 IF p = "value" THEN Literal(<<"7">>) ELSE Variable("x", "Output")],
              <<>>, <<>>),
    LeafContainer,
    Container("SubTree", "SubtreeNode", [p \in {"p"} |-> Variable("x", "Input")],
              <<5>>, <<PortSpec("Input", "p")>>),
    Container("Sequence", "SequenceNode", EmptyMap, <<6, 7>>, <<>>),
    Container("SetBool", "SetBoolNode",
              [p \in {"value", "output"} |->
                 IF p = "value" THEN Literal(<<"6">>) ELSE Variable("loc", "Output")],
              <<>>, <<>>),
    LeafContainer>>

\* The node classes that tick children.
ControlKinds ==
  {"Sequence", "ReactiveSequence", "Fallback", "ReactiveFallbackStar",
   "ForceSuccess", "ForceFailure", "Inverter", "Repeat", "Retry", "if"}

\* The trees the driver may have loaded.
Trees ==
  {ControlTree(k) : k \in ControlKinds}
    \cup {CountTree(k, text) : k \in {"Repeat", "Retry"}, text \in CountTexts}
    \cup {ErrTree, SubtreeTree, BlackboardTree, CountDownTree, IfTree, InverterTree,
          IfElseTree, PersistTree}

Ids(t) == 1..Len(t)

\* The blackboard variables that the port maps of tree t refer to.
VarsOf(t) ==
  {t[i].blackboard_map[p].first :
     <<i, p>> \in {<<i, p>> \in Ids(t) \X {"p", "q", "n", "value", "output"} :
                     /\ p \in DOMAIN t[i].blackboard_map
                     /\ t[i].blackboard_map[p].index = 0}}

\* Variables and values the driver stores in its blackboard before a tick.
DriverVars == {"x", "y"}

DriverValues == {<<"1">>}

LeafIds(t) == {i \in Ids(t) : t[i].node = "Leaf"}

\* Index (from 0) of container c in the child_nodes of container p.
IndexIn(t, p, c) == (CHOOSE k \in 1..Len(t[p].child_nodes) : t[p].child_nodes[k] = c) - 1

IsChildOf(t, p, c) == \E k \in 1..Len(t[p].child_nodes) : t[p].child_nodes[k] = c

\* --------------------------------------------------------------- Context
\* struct Context { blackboard, blackboard_map, child_nodes }: blackboard_map
\* and child_nodes point into a container and are modelled by its id.
NewContext(bb) == [blackboard |-> bb, blackboard_map |-> nullptr, child_nodes |-> nullptr]

\* Context::get that reads through Output ports as well.
Context_get_ReadsOutput(t, ctx, port_name) ==
  LET bbmap == t[ctx.blackboard_map].blackboard_map IN
    IF port_name \in DOMAIN bbmap
    THEN LET x == bbmap[port_name] IN
           IF x.index = 0
           THEN IF x.first \notin DOMAIN ctx.blackboard THEN nullopt
                ELSE ctx.blackboard[x.first]
           ELSE x.literal
    ELSE nullopt

\* Context::set that writes through Input ports as well.
Context_set_WritesInput(t, ctx, port_name, value) ==
  LET bbmap == t[ctx.blackboard_map].blackboard_map IN
    IF port_name \notin DOMAIN bbmap
    THEN [err |-> "undefined_port_error", ctx |-> ctx]
    ELSE LET x == bbmap[port_name] IN
           IF x.index = 0
           THEN [err |-> "",
                 ctx |-> [ctx EXCEPT !.blackboard = MapPut(@, x.first, value)]]
           ELSE [err |-> "write_to_literal_error", ctx |-> ctx]

\* Context::get
Context_get(t, ctx, port_name) ==
  LET bbmap == t[ctx.blackboard_map].blackboard_map IN
    IF port_name \in DOMAIN bbmap
    THEN LET x == bbmap[port_name] IN
           IF x.index = 0
           THEN IF x.second = "Output" THEN nullopt
                ELSE IF x.first \notin DOMAIN ctx.blackboard THEN nullopt
                ELSE ctx.blackboard[x.first]
           ELSE x.literal
    ELSE nullopt

\* Context::set that overwrites a variable but does not create one.
Context_set_NoCreate(t, ctx, port_name, value) ==
  LET bbmap == t[ctx.blackboard_map].blackboard_map IN
    IF port_name \notin DOMAIN bbmap
    THEN [err |-> "undefined_port_error", ctx |-> ctx]
    ELSE LET x == bbmap[port_name] IN
           IF x.index = 0
           THEN IF x.second = "Input"
                THEN [err |-> "write_input_port_error", ctx |-> ctx]
                ELSE IF x.first \notin DOMAIN ctx.blackboard
                THEN [err |-> "", ctx |-> ctx]
                ELSE [err |-> "",
                      ctx |-> [ctx EXCEPT !.blackboard = MapPut(@, x.first, value)]]
           ELSE [err |-> "write_to_literal_error", ctx |-> ctx]

\* Context::set: the exception thrown ("" when none) and the context after.
Context_set(t, ctx, port_name, value) ==
  LET bbmap == t[ctx.blackboard_map].blackboard_map IN
    IF port_name \notin DOMAIN bbmap
    THEN [err |-> "undefined_port_error", ctx |-> ctx]
    ELSE LET x == bbmap[port_name] IN
           IF x.index = 0
           THEN IF x.second = "Input"
                THEN [err |-> "write_input_port_error", ctx |-> ctx]
                ELSE [err |-> "",
                      ctx |-> [ctx EXCEPT !.blackboard = MapPut(@, x.first, value)]]
           ELSE [err |-> "write_to_literal_error", ctx |-> ctx]

\* ------------------------------------------------------------- tick engine
\* One tick_node call is run as a machine with an explicit call stack.  Its
\* record S holds what the calls share:
\*   S.current_child[i]  SequenceNode/FallbackNode::current_child of container i
\*   S.n[i]              RepeatNode/RetryNode::n of container i
\*   S.blackboard[i]     SubtreeNode::blackboard of container i
\*   S.count[i]          CountDownNode::count of container i
\*   S.ctx               the Context
\*   S.log               one entry per BehaviorNodeContainer::tick call left
\* A BehaviorNode::tick is entered ("enter") and, after a child it ticked has
\* returned, resumed ("resume") with the child's result ret and its own local
\* loc.  Each time it yields either the index of the child to tick next, or
\* its result, or the exception it throws.
Call(idx, loc, S) == [kind |-> "call", idx |-> idx, loc |-> loc, res |-> "", S |-> S]

Return(res, S) == [kind |-> "return", idx |-> 0, loc |-> 0, res |-> res, S |-> S]

\* context.child_nodes->size()
Size(t, S) == Len(t[S.ctx.child_nodes].child_nodes)

\* SequenceNode::tick with a switch that also advances on Running.
SequenceSwitch_AdvanceOnRunning(result) ==
  CASE result = "Success" -> [inc |-> 1, break_out |-> FALSE]
    [] result = "Fail" -> [inc |-> 1, break_out |-> TRUE]
    [] result = "Running" -> [inc |-> 1, break_out |-> TRUE]

\* SequenceNode::tick, the switch on the child's result: the increment of
\* current_child and break_out.
SequenceSwitch(result) ==
  CASE result = "Success" -> [inc |-> 1, break_out |-> FALSE]
    [] result = "Fail" -> [inc |-> 1, break_out |-> TRUE]
    [] result = "Running" -> [inc |-> 0, break_out |-> TRUE]

\* FallbackNode::tick, the switch and the `if (break_out) current_child++`
\* that follows it: the total increment of current_child and break_out.
FallbackSwitch(result) ==
  CASE result = "Success" -> [inc |-> 2, break_out |-> TRUE]
    [] result = "Fail" -> [inc |-> 1, break_out |-> FALSE]
    [] result = "Running" -> [inc |-> 1, break_out |-> TRUE]

\* SequenceNode::tick without the reset of current_child at the end.
CursorWrap_Never(current_child, size) == current_child

\* `if (current_child == context.child_nodes->size()) current_child = 0;`
CursorWrap(current_child, size) == IF current_child = size THEN 0 ELSE current_child

\* BehaviorNodeContainer::tick, entry: rebind child_nodes and blackboard_map.
ContainerEnter(ctx, id) == [ctx EXCEPT !.child_nodes = id, !.blackboard_map = id]

\* BehaviorNodeContainer::tick without the catch block: the pointers are
\* restored on the normal path only.
ContainerExit_NoCatch(ctx, prev_child_node, prev_blackboard_map, res) ==
  IF IsErr(res) THEN ctx
  ELSE [ctx EXCEPT !.child_nodes = prev_child_node, !.blackboard_map = prev_blackboard_map]

\* BehaviorNodeContainer::tick, exit: the catch block (res is an exception)
\* and the normal path both restore the two saved pointers.
ContainerExit(ctx, prev_child_node, prev_blackboard_map, res) ==
  [ctx EXCEPT !.child_nodes = prev_child_node, !.blackboard_map = prev_blackboard_map]

\* SubtreeNode::tick, first loop: copy the Input/InOut parameters that
\* ctx.get finds into the node's own blackboard.
RECURSIVE SubtreeCopyIn(_, _, _, _, _)
SubtreeCopyIn(t, ctx, params, k, blackboard) ==
  IF k > Len(params) THEN blackboard
  ELSE LET param == params[k] IN
    IF param.ty # "Input" /\ param.ty # "InOut"
    THEN SubtreeCopyIn(t, ctx, params, k + 1, blackboard)
    ELSE LET value == Context_get(t, ctx, param.key) IN
      IF value # nullopt
      THEN SubtreeCopyIn(t, ctx, params, k + 1, MapPut(blackboard, param.key, value))
      ELSE SubtreeCopyIn(t, ctx, params, k + 1, blackboard)

\* SubtreeNode::tick, the test that skips a parameter in the second loop.
SubtreeSkipOut(ty) == ty # "Output" \/ ty # "InOut"

\* SubtreeNode::tick, second loop: ctx.set of the parameters not skipped;
\* yields [err, ctx] as Context_set does.
RECURSIVE SubtreeCopyOut(_, _, _, _, _)
SubtreeCopyOut(t, ctx, params, k, blackboard) ==
  IF k > Len(params) THEN [err |-> "", ctx |-> ctx]
  ELSE LET param == params[k] IN
    IF SubtreeSkipOut(param.ty)
    THEN SubtreeCopyOut(t, ctx, params, k + 1, blackboard)
    ELSE IF param.key \in DOMAIN blackboard
    THEN LET w == Context_set(t, ctx, param.key, blackboard[param.key]) IN
           IF w.err # "" THEN w
           ELSE SubtreeCopyOut(t, w.ctx, params, k + 1, blackboard)
    ELSE SubtreeCopyOut(t, ctx, params, k + 1, blackboard)

\* SubtreeNode::tick without the two swaps: the subtree runs on the
\* blackboard of the caller.
SubtreeSwap_None(S, id) == S

\* std::swap(blackboard, ctx.blackboard) in SubtreeNode::tick of container id.
SubtreeSwap(S, id) ==
  [S EXCEPT !.blackboard[id] = S.ctx.blackboard, !.ctx.blackboard = S.blackboard[id]]

\* SequenceNode::tick: the while condition, and the reset and return after
\* the loop.
SequenceWhile(t, id, S, result, break_out) ==
  IF ~break_out /\ S.current_child[id] < Size(t, S)
  THEN Call(S.current_child[id], 0, S)
  ELSE Return(result, [S EXCEPT !.current_child[id] = CursorWrap(@, Size(t, S))])

\* SequenceNode::tick
SequenceNode_tick(t, id, S, pc, loc, ret) ==
  IF pc = "enter" THEN SequenceWhile(t, id, S, "Success", FALSE)
  ELSE SequenceWhile(t, id, [S EXCEPT !.current_child[id] = @ + SequenceSwitch(ret).inc],
                     ret, SequenceSwitch(ret).break_out)

\* ReactiveSequenceNode::tick: the while condition and the return; loc is
\* the local current_child.
ReactiveSequenceWhile(t, S, current_child, result, break_out) ==
  IF ~break_out /\ current_child < Size(t, S)
  THEN Call(current_child, current_child, S)
  ELSE Return(result, S)

\* ReactiveSequenceNode::tick with current_child a member, as in
\* SequenceNode.
ReactiveSequenceNode_tick_Member(t, id, S, pc, loc, ret) ==
  IF pc = "enter" THEN SequenceWhile(t, id, S, "Success", FALSE)
  ELSE SequenceWhile(t, id, [S EXCEPT !.current_child[id] = @ + SequenceSwitch(ret).inc],
                     ret, SequenceSwitch(ret).break_out)

\* ReactiveSequenceNode::tick
ReactiveSequenceNode_tick(t, id, S, pc, loc, ret) ==
  IF pc = "enter" THEN ReactiveSequenceWhile(t, S, 0, "Success", FALSE)
  ELSE ReactiveSequenceWhile(t, S, loc + SequenceSwitch(ret).inc, ret,
                             SequenceSwitch(ret).break_out)

\* FallbackNode::tick: the while condition, and the reset and return after
\* the loop.
FallbackWhile(t, id, S, result, break_out) ==
  IF ~break_out /\ S.current_child[id] < Size(t, S)
  THEN Call(S.current_child[id], 0, S)
  ELSE Return(result, [S EXCEPT !.current_child[id] = CursorWrap(@, Size(t, S))])

\* FallbackNode::tick
FallbackNode_tick(t, id, S, pc, loc, ret) ==
  IF pc = "enter" THEN FallbackWhile(t, id, S, "Fail", FALSE)
  ELSE FallbackWhile(t, id, [S EXCEPT !.current_child[id] = @ + FallbackSwitch(ret).inc],
                     ret, FallbackSwitch(ret).break_out)

\* ReactiveFallbackNode::tick: the while condition and the return; loc is
\* the local current_child.
ReactiveFallbackWhile(t, S, current_child, result, break_out) ==
  IF ~break_out /\ current_child < Size(t, S)
  THEN Call(current_child, current_child, S)
  ELSE Return(result, S)

\* ReactiveFallbackNode::tick
ReactiveFallbackNode_tick(t, id, S, pc, loc, ret) ==
  IF pc = "enter" THEN ReactiveFallbackWhile(t, S, 0, "Fail", FALSE)
  ELSE ReactiveFallbackWhile(t, S, loc + FallbackSwitch(ret).inc, ret,
                             FallbackSwitch(ret).break_out)

\* ForceSuccessNode::tick
ForceSuccessNode_tick(t, id, S, pc, loc, ret) ==
  IF pc = "enter"
  THEN IF Size(t, S) # 0 THEN Call(0, 0, S) ELSE Return("Success", S)
  ELSE IF ret = "Running" THEN Return("Running", S) ELSE Return("Success", S)

\* ForceFailureNode::tick
ForceFailureNode_tick(t, id, S, pc, loc, ret) ==
  IF pc = "enter"
  THEN IF Size(t, S) # 0 THEN Call(0, 0, S) ELSE Return("Fail", S)
  ELSE IF ret = "Running" THEN Return("Running", S) ELSE Return("Fail", S)

\* InverterNode::tick with a switch that passes every result through.
InverterSwitch_Identity(result) == result

\* InverterNode::tick, the switch on the child's result.
InverterSwitch(result) ==
  CASE result = "Success" -> "Fail"
    [] result = "Fail" -> "Success"
    [] OTHER -> result

\* InverterNode::tick
InverterNode_tick(t, id, S, pc, loc, ret) ==
  IF pc = "enter"
  THEN IF Size(t, S) # 0 THEN Call(0, 0, S) ELSE Return("Fail", S)
  ELSE Return(InverterSwitch(ret), S)

\* Context::tick_child(idx) as the node at the top of the stack calls it:
\* the child to tick, or std::nullopt at once.
tick_child(t, S, idx) ==
  IF Size(t, S) <= idx THEN Return(nullopt, S) ELSE Call(idx, idx, S)

\* RepeatNode::tick and RetryNode::tick up to tick_child(0): read n, load
\* the counter when it is 0, throw on 0, decrement, Success on 0.
CountEnter(t, id, S) ==
  LET n == Context_get(t, S.ctx, "n") IN
    IF n = nullopt THEN Return("invalid_count_error", S)
    ELSE LET S1 == IF S.n[id] = 0 THEN [S EXCEPT !.n[id] = atoi(n)] ELSE S IN
      IF S1.n[id] = 0 THEN Return("invalid_count_error", S1)
      ELSE LET S2 == [S1 EXCEPT !.n[id] = @ - 1] IN
        IF S2.n[id] = 0 THEN Return("Success", S2)
        ELSE LET res == tick_child(t, S2, 0) IN
          IF res.kind = "return" THEN Return("Fail", S2) ELSE res

\* RepeatNode::tick that does not count a tick in which the child returned
\* Success.
RepeatNode_tick_Recount(t, id, S, pc, loc, ret) ==
  IF pc = "enter" THEN CountEnter(t, id, S)
  ELSE IF ret = "Success" THEN Return("Running", [S EXCEPT !.n[id] = @ + 1])
  ELSE IF ret = "Running" THEN Return("Running", S)
  ELSE Return(ret, [S EXCEPT !.n[id] = 0])

\* RepeatNode::tick that keeps its counter when the child returns Fail.
RepeatNode_tick_NoReset(t, id, S, pc, loc, ret) ==
  IF pc = "enter" THEN CountEnter(t, id, S)
  ELSE IF ret = "Success" THEN Return("Running", S)
  ELSE IF ret = "Running" THEN Return("Running", S)
  ELSE Return(ret, S)

\* RepeatNode::tick that does not count a tick in which the child returned
\* Running.
RepeatNode_tick_RunningKeeps(t, id, S, pc, loc, ret) ==
  IF pc = "enter" THEN CountEnter(t, id, S)
  ELSE IF ret = "Success" THEN Return("Running", S)
  ELSE IF ret = "Running" THEN Return("Running", [S EXCEPT !.n[id] = @ + 1])
  ELSE Return(ret, [S EXCEPT !.n[id] = 0])

\* RepeatNode::tick
RepeatNode_tick(t, id, S, pc, loc, ret) ==
  IF pc = "enter" THEN CountEnter(t, id, S)
  ELSE IF ret = "Success" THEN Return("Running", S)
  ELSE IF ret = "Running" THEN Return("Running", S)
  ELSE Return(ret, [S EXCEPT !.n[id] = 0])

\* RetryNode::tick that keeps its counter when the child returns Success.
RetryNode_tick_NoReset(t, id, S, pc, loc, ret) ==
  IF pc = "enter" THEN CountEnter(t, id, S)
  ELSE IF ret = "Fail" THEN Return("Running", S)
  ELSE IF ret = "Running" THEN Return("Running", S)
  ELSE Return(ret, S)

\* RetryNode::tick that returns the Fail of its child.
RetryNode_tick_FailThrough(t, id, S, pc, loc, ret) ==
  IF pc = "enter" THEN CountEnter(t, id, S)
  ELSE IF ret = "Running" THEN Return("Running", S)
  ELSE Return(ret, [S EXCEPT !.n[id] = 0])

\* RetryNode::tick
RetryNode_tick(t, id, S, pc, loc, ret) ==
  IF pc = "enter" THEN CountEnter(t, id, S)
  ELSE IF ret = "Fail" THEN Return("Running", S)
  ELSE IF ret = "Running" THEN Return("Running", S)
  ELSE Return(ret, [S EXCEPT !.n[id] = 0])

\* SetBoolNode::tick
SetBoolNode_tick(t, id, S) ==
  LET var_it == Context_get(t, S.ctx, "value") IN
    IF var_it # nullopt
    THEN LET w == Context_set(t, S.ctx, "output", var_it) IN
           IF w.err # "" THEN Return(w.err, S)
           ELSE Return("Success", [S EXCEPT !.ctx = w.ctx])
    ELSE Return("Success", S)

\* PrintNode::tick (main.cc): reads port input and prints.
PrintNode_tick(t, id, S) == Return("Success", S)

\* CountDownNode::tick (main.cc) that tests the count before it decrements
\* it: `0 < count--`.
CountDownNode_tick_PostDecrement(t, id, S) ==
  LET bb_count == Context_get(t, S.ctx, "count")
      count == IF S.count[id] < 0 /\ bb_count # nullopt THEN atoi(bb_count)
               ELSE S.count[id]
  IN Return(IF 0 < count THEN "Running" ELSE "Success",
            [S EXCEPT !.count[id] = count - 1])

\* CountDownNode::tick (main.cc): load the count when it is negative and the
\* port has a value, then `0 < --count`.
CountDownNode_tick(t, id, S) ==
  LET bb_count == Context_get(t, S.ctx, "count")
      count == IF S.count[id] < 0 /\ bb_count # nullopt THEN atoi(bb_count)
               ELSE S.count[id]
  IN Return(IF 0 < count - 1 THEN "Running" ELSE "Success",
            [S EXCEPT !.count[id] = count - 1])

\* IfNode::tick with the test of the condition inverted.
IfBranch_Inverted(t, S, res) ==
  IF res # "Fail"
  THEN LET res2 == tick_child(t, S, 2) IN
         IF res2.kind = "return" THEN Return("Fail", S) ELSE res2
  ELSE LET res2 == tick_child(t, S, 1) IN
         IF res2.kind = "return" THEN Return("Fail", S) ELSE res2

\* IfNode::tick that starts the branch it ticks from its first child.
IfBranch_Restart(t, S, res) ==
  LET Branch(idx) ==
        IF Size(t, S) <= idx THEN Return("Fail", S)
        ELSE Call(idx, idx,
                  [S EXCEPT !.current_child[t[S.ctx.child_nodes].child_nodes[idx + 1]] = 0])
  IN IF res = "Fail" THEN Branch(2) ELSE Branch(1)

\* IfNode::tick from the test of the condition's result res on: tick child 2
\* or child 1 and return its result, Fail when there is no such child.
IfBranch(t, S, res) ==
  IF res = "Fail"
  THEN LET res2 == tick_child(t, S, 2) IN
         IF res2.kind = "return" THEN Return("Fail", S) ELSE res2
  ELSE LET res2 == tick_child(t, S, 1) IN
         IF res2.kind = "return" THEN Return("Fail", S) ELSE res2

\* IfNode::tick; loc is the index of the child that has been ticked.
IfNode_tick(t, id, S, pc, loc, ret) ==
  IF pc = "enter"
  THEN LET res == tick_child(t, S, 0) IN
         IF res.kind = "return" THEN IfBranch(t, S, nullopt) ELSE res
  ELSE IF loc = 0 THEN IfBranch(t, S, ret)
  ELSE Return(ret, S)

\* SubtreeNode::tick after tick_child(0) has returned sub_res: swap back,
\* copy the parameters out, return.
SubtreeReturn(t, id, S, sub_res) ==
  LET res == IF sub_res # nullopt THEN sub_res ELSE "Success"
      S3 == SubtreeSwap(S, id)
      w == SubtreeCopyOut(t, S3.ctx, t[id].params, 1, S3.blackboard[id])
  IN IF w.err # "" THEN Return(w.err, S3)
     ELSE Return(res, [S3 EXCEPT !.ctx = w.ctx])

\* SubtreeNode::tick
SubtreeNode_tick(t, id, S, pc, loc, ret) ==
  IF pc = "enter"
  THEN LET S1 == SubtreeSwap([S EXCEPT !.blackboard[id] =
                    SubtreeCopyIn(t, S.ctx, t[id].params, 1, S.blackboard[id])], id)
           sub_res == tick_child(t, S1, 0)
       IN IF sub_res.kind = "return" THEN SubtreeReturn(t, id, S1, nullopt) ELSE sub_res
  ELSE SubtreeReturn(t, id, S, ret)

\* BehaviorNode::tick of the node that container id owns: virtual dispatch
\* on its class.  A "Leaf" is a user node (the BehaviorNode interface): its
\* result is the driver-side input user.
NodeTick(t, id, S, pc, loc, ret, user) ==
  CASE t[id].node = "SequenceNode" -> SequenceNode_tick(t, id, S, pc, loc, ret)
    [] t[id].node = "ReactiveSequenceNode" -> ReactiveSequenceNode_tick(t, id, S, pc, loc, ret)
    [] t[id].node = "FallbackNode" -> FallbackNode_tick(t, id, S, pc, loc, ret)
    [] t[id].node = "ReactiveFallbackNode" -> ReactiveFallbackNode_tick(t, id, S, pc, loc, ret)
    [] t[id].node = "ForceSuccessNode" -> ForceSuccessNode_tick(t, id, S, pc, loc, ret)
    [] t[id].node = "ForceFailureNode" -> ForceFailureNode_tick(t, id, S, pc, loc, ret)
    [] t[id].node = "InverterNode" -> InverterNode_tick(t, id, S, pc, loc, ret)
    [] t[id].node = "RepeatNode" -> RepeatNode_tick(t, id, S, pc, loc, ret)
    [] t[id].node = "RetryNode" -> RetryNode_tick(t, id, S, pc, loc, ret)
    [] t[id].node = "TrueNode" -> Return("Success", S)
    [] t[id].node = "FalseNode" -> Return("Fail", S)
    [] t[id].node = "SetBoolNode" -> SetBoolNode_tick(t, id, S)
    [] t[id].node = "IfNode" -> IfNode_tick(t, id, S, pc, loc, ret)
    [] t[id].node = "SubtreeNode" -> SubtreeNode_tick(t, id, S, pc, loc, ret)
    [] t[id].node = "PrintNode" -> PrintNode_tick(t, id, S)
    [] t[id].node = "CountDownNode" -> CountDownNode_tick(t, id, S)
    [] t[id].node = "Leaf" -> Return(user, S)

\* The machine: S, the stack of BehaviorNodeContainer::tick calls in
\* progress (top first), and the result or exception ret of the call that
\* was left last.  A frame holds the container, where its node's tick stands
\* (pc, loc), and the cursor and the context the call found (ctx_in holds
\* prev_child_node and prev_blackboard_map).
Frame(id, S) ==
  [id |-> id, pc |-> "enter", loc |-> 0,
   cursor_in |-> S.current_child[id], ctx_in |-> S.ctx]

\* The log entry of a BehaviorNodeContainer::tick call that has returned or
\* thrown: the result, the cursor and the context as the call found and left
\* them.
LogEntry(f, res, ctx_out) ==
  [node |-> f.id, res |-> res, cursor_in |-> f.cursor_in,
   ctx_in |-> f.ctx_in, ctx_out |-> ctx_out]

\* BehaviorNodeContainer::tick of container id is called: `if (this->node)`,
\* save and rebind the pointers; a container without a node returns Success.
ContainerCall(t, m, id, S) ==
  IF t[id].node # ""
  THEN [S |-> [S EXCEPT !.ctx = ContainerEnter(S.ctx, id)],
        stack |-> <<Frame(id, S)>> \o m.stack, ret |-> ""]
  ELSE [S |-> S, stack |-> m.stack, ret |-> "Success"]

\* BehaviorNodeContainer::tick of the top frame is left with res, a result
\* or an exception passing through its catch block.
ContainerReturn(m, res, S) ==
  LET f == Head(m.stack)
      ctx_out == ContainerExit(S.ctx, f.ctx_in.child_nodes, f.ctx_in.blackboard_map, res)
  IN [S |-> [S EXCEPT !.ctx = ctx_out, !.log = Append(@, LogEntry(f, res, ctx_out))],
      stack |-> Tail(m.stack), ret |-> res]

\* One step of the machine: an exception that came out of a child leaves the
\* node's tick at once; otherwise the node at the top runs to its next child
\* tick or to its return.
Step(t, m, user) ==
  LET f == Head(m.stack) IN
    IF f.pc = "resume" /\ IsErr(m.ret) THEN ContainerReturn(m, m.ret, m.S)
    ELSE LET r == NodeTick(t, f.id, m.S, f.pc, f.loc, m.ret, user) IN
      IF r.kind = "call"
      THEN ContainerCall(t, [m EXCEPT !.stack[1].pc = "resume", !.stack[1].loc = r.loc],
                         t[f.id].child_nodes[r.idx + 1], r.S)
      ELSE ContainerReturn(m, r.res, r.S)

\* The steps the machine can take: one for each result that the user node
\* about to be ticked can give, one otherwise.
Steps(t, m) ==
  IF t[Head(m.stack).id].node = "Leaf"
  THEN {Step(t, m, user) : user \in BehaviorResult}
  ELSE {Step(t, m, "Success")}

\* Run the machine until the outermost call is left: the machines it can end
\* in.
RECURSIVE Run(_, _)
Run(t, m) == IF m.stack = <<>> THEN {m} ELSE UNION {Run(t, m2) : m2 \in Steps(t, m)}

\* ------------------------------------------------------------------ state
VARIABLES
  tree,           \* the loaded tree the driver ticks
  current_child,  \* current_child[i]: cursor of SequenceNode/FallbackNode i
  n,              \* n[i]: counter of RepeatNode/RetryNode i
  blackboard,     \* blackboard[i]: SubtreeNode::blackboard of container i
  count,          \* count[i]: CountDownNode::count of container i
  bb,             \* the driver's Blackboard, passed to tick_node
  context,        \* the Context of the last tick_node call, as the call left it
  result,         \* what the last tick_node call returned or threw
  log,            \* the container ticks of the last tick_node call, in return order
  last,           \* last[i]: summary of the most recent tick of container i
  run,            \* run[i]: the ticks of Repeat or Retry i since it last finished
  ticks,          \* number of tick_node calls since the tree was loaded, up to MaxTicks
  op,             \* the driver's last operation
  call,           \* the last direct call of Context::get or Context::set
  input,          \* the text given to a parser
  parsed,         \* the parser last applied to input and what it returned or threw
  trees,          \* the TreeSource given to load
  node_types,     \* Registry::node_types of the registry given to load
  emplaced,       \* the names and constructors emplaced in node_types, in call order
  loaded          \* what the last call of load returned or threw

vars ==
  <<tree, current_child, n, blackboard, count, bb, context, result, log, last, run, ticks,
    op, call, input, parsed, trees, node_types, emplaced, loaded>>

\* The entries of log l for the children of container p, in tick order.
ChildEntries(t, l, p) == SelectSeq(l, LAMBDA e : IsChildOf(t, p, e.node))

\* Summary of the tick of container e.node recorded by entry e of log l: its
\* result, the cursor it started from, the indices and results of the
\* children it ticked, in order, and the index and result of the last child
\* it had ticked in its tick before this one (old is the summary of that
\* tick), the indices of the children that have returned Success in the
\* ticks from the last one that started with the cursor at 0 on, and
\* ctx.blackboard as the call found it, as it left it, and as its call before
\* this one left it.
Summary(t, l, e, old) ==
  LET ce == ChildEntries(t, l, e.node) IN
    [ticked |-> TRUE, res |-> e.res, cursor_in |-> e.cursor_in,
     idxs |-> [k \in 1..Len(ce) |-> IndexIn(t, e.node, ce[k].node)],
     ress |-> [k \in 1..Len(ce) |-> ce[k].res],
     prev_idx |-> IF Len(old.idxs) = 0 THEN -1 ELSE old.idxs[Len(old.idxs)],
     prev_res |-> IF Len(old.ress) = 0 THEN "" ELSE old.ress[Len(old.ress)],
     done |-> (IF e.cursor_in = 0 THEN {} ELSE old.done)
                \cup {IndexIn(t, e.node, ce[k].node) :
                        k \in {j \in 1..Len(ce) : ce[j].res = "Success"}},
     bb_in |-> e.ctx_in.blackboard, bb_out |-> e.ctx_out.blackboard,
     prev_bb |-> old.bb_out]

\* No call of Context::get or Context::set has been made.
NoCall == [fn |-> "", port_name |-> "", value |-> <<>>, ctx_in |-> NewContext(EmptyMap)]

\* The ticks of a Repeat or a Retry from the one that starts a run (its
\* first, or the one after a tick that returned other than Running) on:
\* which run it is (1, or 2 for every later one), the number of ticks, the
\* number of them that ticked the child, whether the child returned Success
\* each time, whether it returned Fail each time, and whether the run is over.
NoRun ==
  [number |-> 0, ticks |-> 0, child |-> 0, clean |-> TRUE, fails |-> TRUE, over |-> TRUE]

\* run[i] after the tick of container i that entry e of log l records.
RunAfter(t, l, e, old) ==
  LET ce == ChildEntries(t, l, e.node)
      base == IF old.over
              THEN [number |-> IF old.number < 2 THEN old.number + 1 ELSE 2,
                    ticks |-> 0, child |-> 0, clean |-> TRUE, fails |-> TRUE,
                    over |-> FALSE]
              ELSE old
  IN [number |-> base.number,
      ticks |-> IF base.ticks <= MaxCount THEN base.ticks + 1 ELSE base.ticks,
      child |-> IF base.child <= MaxCount THEN base.child + Len(ce) ELSE base.child,
      clean |-> base.clean /\ \A k \in 1..Len(ce) : ce[k].res = "Success",
      fails |-> base.fails /\ \A k \in 1..Len(ce) : ce[k].res = "Fail",
      over |-> e.res # "Running"]

NeverTicked ==
  [ticked |-> FALSE, res |-> "", cursor_in |-> 0, idxs |-> <<>>, ress |-> <<>>,
   prev_idx |-> -1, prev_res |-> "", done |-> {},
   bb_in |-> EmptyMap, bb_out |-> EmptyMap, prev_bb |-> EmptyMap]

Ticked(l) == {l[k].node : k \in 1..Len(l)}

EntryOf(l, i) == l[CHOOSE k \in 1..Len(l) : l[k].node = i]

Init ==
  /\ tree \in Trees
  /\ current_child = [i \in Ids(tree) |-> 0]
  /\ n = [i \in Ids(tree) |-> 0]
  /\ blackboard = [i \in Ids(tree) |-> EmptyMap]
  /\ count = [i \in Ids(tree) |-> -1]
  /\ bb = EmptyMap
  /\ context = NewContext(EmptyMap)
  /\ result = ""
  /\ log = <<>>
  /\ last = [i \in Ids(tree) |-> NeverTicked]
  /\ run = [i \in Ids(tree) |-> NoRun]
  /\ ticks = 0
  /\ op = "load"
  /\ call = NoCall
  /\ input = <<>>
  /\ parsed = [fn |-> "", res |-> Res(<<>>, <<>>)]
  /\ trees = <<>>
  /\ node_types = defaultRegistry
  /\ emplaced = <<>>
  /\ loaded = [outcome |-> "", tree |-> <<>>, name |-> ""]

\* tick_node(node, bb): Context context { .blackboard = bb }; node.tick(context),
\* node being the root container.  Yields the machines that the call can leave,
\* one for each combination of results of the user nodes it ticks.
tick_node(t, S, bb0) ==
  Run(t, ContainerCall(t, [S |-> S, stack |-> <<>>, ret |-> ""], 1,
                       [S EXCEPT !.ctx = NewContext(bb0), !.log = <<>>]))

\* The driver calls tick_node(*tree, bb), which leaves the machine r.  A
\* counter that started below zero only goes down: it is followed for
\* MaxTicks ticks.
TickNode ==
  \E r \in tick_node(tree,
                     [current_child |-> current_child, n |-> n, blackboard |-> blackboard,
                      count |-> count, ctx |-> context, log |-> log],
                     bb) :
    /\ \A i \in Ids(tree) : r.S.n[i] >= 0 - MaxTicks - 1
    /\ current_child' = r.S.current_child
    /\ n' = r.S.n
    /\ blackboard' = r.S.blackboard
    /\ count' = r.S.count
    /\ context' = r.S.ctx
    /\ result' = r.ret
    /\ log' = r.S.log
    /\ last' = [i \in Ids(tree) |->
                  IF i \in Ticked(r.S.log)
                  THEN Summary(tree, r.S.log, EntryOf(r.S.log, i), last[i])
                  ELSE last[i]]
    /\ run' = [i \in Ids(tree) |->
                 IF i \in Ticked(r.S.log) /\ tree[i].node \in {"RepeatNode", "RetryNode"}
                 THEN RunAfter(tree, r.S.log, EntryOf(r.S.log, i), run[i])
                 ELSE run[i]]
    /\ ticks' = IF ticks < MaxTicks THEN ticks + 1 ELSE ticks
    /\ op' = "tick_node"
    /\ UNCHANGED <<tree, bb, call, input, parsed, trees, node_types, emplaced, loaded>>

\* The driver stores a value in its blackboard between ticks (bb["foo"] = "bar").
DriverSet(k, v) ==
  /\ k \in VarsOf(tree)
  /\ bb' = MapPut(bb, k, v)
  /\ op' = "set"
  /\ UNCHANGED <<tree, current_child, n, blackboard, count, context, result, log, last,
                 run, ticks, call, input, parsed, trees, node_types, emplaced, loaded>>

Next ==
  \/ TickNode
  \/ \E k \in DriverVars, v \in DriverValues : DriverSet(k, v)

Spec == Init /\ [][Next]_vars

\* ------------------------------------------------------- the port layer
\* Context::get and Context::set called on their own, as the tick of a user
\* node calls them: the context is bound to the one container of the tree,
\* whose port map is any map over PortNames, and holds any blackboard over
\* PortVars.
PortNames == {"input", "output"}

PortVars == {"x", "y"}

\* The BlackboardValue variants a port can be mapped to.
BlackboardValues ==
  {Variable(v, d) : v \in PortVars, d \in {"Input", "Output", "InOut"}}
    \cup {Literal(<<"7">>)}

BBMaps == UNION {[D -> BlackboardValues] : D \in SUBSET PortNames}

Blackboards == UNION {[D -> {<<"1">>}] : D \in SUBSET PortVars}

\* The values that the node writes.
WrittenValues == {<<"2">>}

InitPorts ==
  /\ tree \in {<<Container("Leaf", "Leaf", m, <<>>, <<>>)>> : m \in BBMaps}
  /\ current_child = [i \in Ids(tree) |-> 0]
  /\ n = [i \in Ids(tree) |-> 0]
  /\ blackboard = [i \in Ids(tree) |-> EmptyMap]
  /\ count = [i \in Ids(tree) |-> -1]
  /\ bb \in Blackboards
  /\ context = ContainerEnter(NewContext(bb), 1)
  /\ result = ""
  /\ log = <<>>
  /\ last = [i \in Ids(tree) |-> NeverTicked]
  /\ run = [i \in Ids(tree) |-> NoRun]
  /\ ticks = 0
  /\ op = "load"
  /\ call = NoCall
  /\ input = <<>>
  /\ parsed = [fn |-> "", res |-> Res(<<>>, <<>>)]
  /\ trees = <<>>
  /\ node_types = defaultRegistry
  /\ emplaced = <<>>
  /\ loaded = [outcome |-> "", tree |-> <<>>, name |-> ""]

\* The node calls context.get(port_name).
Get(port_name) ==
  /\ call' = [fn |-> "get", port_name |-> port_name, value |-> <<>>, ctx_in |-> context]
  /\ result' = Context_get(tree, context, port_name)
  /\ UNCHANGED <<tree, current_child, n, blackboard, count, bb, context, log, last,
                 run, ticks, op, input, parsed, trees, node_types, emplaced, loaded>>

\* The node calls context.set(port_name, value).
Set(port_name, value) ==
  /\ call' = [fn |-> "set", port_name |-> port_name, value |-> value, ctx_in |-> context]
  /\ result' = Context_set(tree, context, port_name, value).err
  /\ context' = Context_set(tree, context, port_name, value).ctx
  /\ UNCHANGED <<tree, current_child, n, blackboard, count, bb, log, last, run, ticks, op,
                 input, parsed, trees, node_types, emplaced, loaded>>

NextPorts ==
  \/ \E port_name \in PortNames : Get(port_name)
  \/ \E port_name \in PortNames, value \in WrittenValues : Set(port_name, value)

SpecPorts == InitPorts /\ [][NextPorts]_vars

\* ------------------------------------------- the parsers on their own
\* A parser is applied to a text, as test_identifier and test_string_literal
\* (main.cc) do with identifier and string_literal.

\* Largest length of the texts that are taken character by character.
MaxTextLen == 4

\* Largest number of elements in the block of a node.
MaxElems == 3

\* Every text of up to MaxTextLen characters out of a letter, an underscore,
\* a digit, a space, a double quote and the characters of the arrows.
ShortTexts ==
  UNION {[1..k -> {"a", "_", "1", " ", "\"", "<", "-", ">"}] : k \in 0..MaxTextLen}

\* The texts of the elements of a block: two nodes, and variables declared
\* without and with an initialiser.
Elements == {<<"a">>, <<"b", "(", "p", " ", "<", "-", " ", "x", ")">>, <<"v", "a", "r", " ", "x">>, <<"v", "a", "r", " ", "x", " ", "=", " ", "t", "r", "u", "e">>, <<"v", "a", "r", " ", "y", " ", "=", " ", "f", "a", "l", "s", "e">>}

\* The element sequences of a block.
Blocks == UNION {[1..k -> Elements] : k \in 0..MaxElems}

\* The texts of the sequence elems, each followed by a space.
RECURSIVE Join(_)
Join(elems) == IF Len(elems) = 0 THEN <<>> ELSE Head(elems) \o <<" ">> \o Join(Tail(elems))

\* name { elems }
BlockText(name, elems) == name \o <<" ", "{", " ">> \o Join(elems) \o <<"}">>

\* The texts of the conditions of an if.
Conditions == {<<"c">>, <<"c", "(", "p", " ", "<", "-", " ", "x", ")">>}

\* if (cond) { A }, followed by else { B } when has_else.
IfText(cond, A, has_else, B) ==
  <<"i", "f", " ", "(">> \o cond \o <<")", " ", "{", " ">> \o Join(A) \o <<"}">>
    \o (IF has_else THEN <<" ", "e", "l", "s", "e", " ", "{", " ">> \o Join(B) \o <<"}">> ELSE <<>>)

\* The texts given to the parsers.
Texts ==
  ShortTexts
    \cup {<<"p", " ", "<", "-", ">", " ", "x">>, <<"p", "<", "-", ">", "x">>, <<"p", " ", "<", "-", ">", " ", "\"", "v", "\"">>, <<"p", " ", "<", "-", " ", "x">>, <<"p", " ", "-", ">", " ", "x">>, <<"p", " ", "<", "-", " ", "\"", "v", "\"">>, <<"p", " ", "<", "-", " ", "\"", "v">>,
          <<"a", "b", "c", "_", "1", " ", "=", " ">> }
    \cup {BlockText(<<"S", "e", "q", "u", "e", "n", "c", "e">>, elems) : elems \in Blocks}
    \cup {IfText(cond, A, has_else, B) :
            cond \in Conditions, A \in {b \in Blocks : Len(b) <= 1},
            has_else \in BOOLEAN, B \in {b \in Blocks : Len(b) <= 1}}

InitParse ==
  /\ input \in Texts
  /\ parsed = [fn |-> "", res |-> Res(<<>>, <<>>)]
  /\ trees = <<>>
  /\ node_types = defaultRegistry
  /\ emplaced = <<>>
  /\ loaded = [outcome |-> "", tree |-> <<>>, name |-> ""]
  /\ tree = <<>>
  /\ current_child = [i \in Ids(tree) |-> 0]
  /\ n = [i \in Ids(tree) |-> 0]
  /\ blackboard = [i \in Ids(tree) |-> EmptyMap]
  /\ count = [i \in Ids(tree) |-> -1]
  /\ bb = EmptyMap
  /\ context = NewContext(EmptyMap)
  /\ result = ""
  /\ log = <<>>
  /\ last = [i \in Ids(tree) |-> NeverTicked]
  /\ run = [i \in Ids(tree) |-> NoRun]
  /\ ticks = 0
  /\ op = ""
  /\ call = NoCall

\* The parser fn is applied to the input.
Parse(fn) ==
  /\ parsed' = [fn |-> fn, res |-> parser(fn, input)]
  /\ UNCHANGED <<input, trees, node_types, emplaced, loaded, tree, current_child, n,
                 blackboard, count, bb, context, result, log, last, run, ticks, op, call>>

NextParse == \E fn \in {"identifier", "string_literal", "port_map", "parse_tree_child"} : Parse(fn)

SpecParse == InitParse /\ [][NextParse]_vars

\* ------------------------------------------------------------ the loader
\* load on its own: build_and_run (main.cc) emplaces its node types in the
\* default registry and gives load a TreeSource.  Here a TreeSource is given
\* as the parser's result type, with the names as strings; the loaded
\* containers hold their child_nodes themselves, not ids.

\* Largest number of children of the root of tree main.
MaxChildren == 2

\* Largest number of emplace calls on the registry before load.
MaxEmplace == 2

\* std::unordered_map::emplace: no effect when the key is present.
emplace(m, k, v) == IF k \in DOMAIN m THEN m ELSE MapPut(m, k, v)

\* load_recurse builds no SubtreeNode: the name of a tree is looked up in the
\* registry like any other.
tree_it_None(parent, tree_source) == {}

\* load_recurse, tree_it: the indices of the trees of tree_source that
\* std::find_if can return, the first tree named as parent or none.
tree_it(parent, tree_source) ==
  {k \in 1..Len(tree_source) :
     /\ tree_source[k].name = parent.name
     /\ \A j \in 1..(k - 1) : tree_source[j].name # parent.name}

\* load_recurse: a loaded container, or the undefined_node_error thrown;
\* node_it holds the constructor found for the node, or nothing.
\* loading holds the names of the trees whose root the calls that have not
\* returned are loading: a call for a node named in it repeats one of them,
\* so the recursion does not end and the stack overflows.
RECURSIVE load_recurse(_, _, _, _)
load_recurse(parent, tree_source, registry, loading) ==
  LET bbmap == [p \in {parent.port_maps[k].node_port : k \in 1..Len(parent.port_maps)} |->
                  parent.port_maps[CHOOSE k \in 1..Len(parent.port_maps) :
                                     /\ parent.port_maps[k].node_port = p
                                     /\ \A j \in 1..(k - 1) : parent.port_maps[j].node_port # p
                                  ].blackboard_value]
      Ret(node_it, child_nodes, params) ==
        IF \E k \in 1..Len(child_nodes) : child_nodes[k].outcome # "tree"
        THEN child_nodes[CHOOSE k \in 1..Len(child_nodes) :
                           /\ child_nodes[k].outcome # "tree"
                           /\ \A j \in 1..(k - 1) : child_nodes[j].outcome = "tree"]
        ELSE IF node_it = {}
        THEN [outcome |-> "undefined_node_error", tree |-> <<>>, name |-> parent.name]
        ELSE [outcome |-> "tree",
              tree |-> Container(parent.name, CHOOSE node \in node_it : TRUE, bbmap,
                                 [k \in 1..Len(child_nodes) |-> child_nodes[k].tree], params),
              name |-> ""]
      Subtree(found) ==
        IF parent.name \in loading
        THEN [outcome |-> "stack_overflow", tree |-> <<>>, name |-> parent.name]
        ELSE Ret({"SubtreeNode"},
                 <<load_recurse(found.node, tree_source, registry, loading \cup {parent.name})>>,
                 [k \in 1..Len(found.ports) |->
                    PortSpec(found.ports[k].direction, found.ports[k].name)])
      Found(its) ==
        IF its # {} THEN Subtree(tree_source[CHOOSE k \in its : TRUE])
        ELSE Ret({registry[k] : k \in {parent.name} \cap DOMAIN registry},
                 [k \in 1..Len(parent.children) |->
                    load_recurse(parent.children[k], tree_source, registry, loading)],
                 <<>>)
  IN Found(tree_it(parent, tree_source))

\* load: what load_recurse yields for the root of the first tree named main,
\* or std::nullopt.
load(tree_source, registry) ==
  LET Ret(main_it) ==
        IF main_it = {} THEN [outcome |-> "nullopt", tree |-> <<>>, name |-> ""]
        ELSE load_recurse(tree_source[CHOOSE k \in main_it : TRUE].node, tree_source, registry, {})
  IN Ret({k \in 1..Len(tree_source) :
            /\ tree_source[k].name = "main"
            /\ \A j \in 1..(k - 1) : tree_source[j].name # "main"})

\* The node type names of the sources: a registered control node, a user
\* node, registered only when the driver emplaces it, and the tree names.
NodeNames == {"Sequence", "Leaf", "sub", "main"}

\* The TreeDefs name(p <- x) { child ... child } with up to max children
\* that have no children.
TreeDefs(max) ==
  {TreeDef(name, <<PortMap("Input", FALSE, "p", Variable("x", "Input"))>>,
           [k \in 1..len |-> TreeDef(children[k], <<>>, <<>>, <<>>)], <<>>) :
     <<name, len, children>> \in
       {<<name, len, children>> \in NodeNames \X (0..max) \X [1..max -> NodeNames \ {"Sequence"}] :
          \A k \in (len + 1)..max : children[k] = "Leaf"}}

\* The sources given to load: a tree main, a tree main and a tree sub, with
\* or without declared ports, or a tree sub alone.
TreeSources ==
  LET Tree(name, node, ports) == [name |-> name, node |-> node, ports |-> ports]
      Subs == {Tree("sub", node, ports) :
                 node \in TreeDefs(1),
                 ports \in {<<>>, <<[direction |-> "Input", name |-> "p"],
                                    [direction |-> "Output", name |-> "q"]>>}}
  IN {<<Tree("main", node, <<>>)>> : node \in TreeDefs(MaxChildren)}
       \cup {<<Tree("main", node, <<>>), sub>> : node \in TreeDefs(MaxChildren), sub \in Subs}
       \cup {<<sub>> : sub \in Subs}

InitLoad ==
  /\ trees \in TreeSources
  /\ node_types = defaultRegistry
  /\ emplaced = <<>>
  /\ loaded = [outcome |-> "", tree |-> <<>>, name |-> ""]
  /\ input = <<>>
  /\ parsed = [fn |-> "", res |-> Res(<<>>, <<>>)]
  /\ tree = <<>>
  /\ current_child = [i \in Ids(tree) |-> 0]
  /\ n = [i \in Ids(tree) |-> 0]
  /\ blackboard = [i \in Ids(tree) |-> EmptyMap]
  /\ count = [i \in Ids(tree) |-> -1]
  /\ bb = EmptyMap
  /\ context = NewContext(EmptyMap)
  /\ result = ""
  /\ log = <<>>
  /\ last = [i \in Ids(tree) |-> NeverTicked]
  /\ run = [i \in Ids(tree) |-> NoRun]
  /\ ticks = 0
  /\ op = ""
  /\ call = NoCall

\* registry.node_types.emplace(name, constructor) before the tree is loaded.
Emplace(name, constructor) ==
  /\ loaded.outcome = ""
  /\ Len(emplaced) < MaxEmplace
  /\ node_types' = emplace(node_types, name, constructor)
  /\ emplaced' = Append(emplaced, <<name, constructor>>)
  /\ UNCHANGED <<trees, loaded, input, parsed, tree, current_child, n, blackboard, count, bb,
                 context, result, log, last, run, ticks, op, call>>

\* load(tree_source, registry)
Load ==
  /\ loaded' = load(trees, node_types)
  /\ UNCHANGED <<trees, node_types, emplaced, input, parsed, tree, current_child, n,
                 blackboard, count, bb, context, result, log, last, run, ticks, op, call>>

NextLoad ==
  \/ \E e \in {<<"Leaf", "LeafNode">>, <<"Sequence", "OtherNode">>, <<"sub", "OtherNode">>} :
       Emplace(e[1], e[2])
  \/ Load

SpecLoad == InitLoad /\ [][NextLoad]_vars

\* ------------------------------------------------------------ properties
\* The containers of the loaded tree that own a node of class c.
NodesOf(c) == {i \in Ids(tree) : tree[i].node = c}

\* Index and result of the last child that container i ticked in its most
\* recent tick, and index of the first one.
LastIdx(i) == last[i].idxs[Len(last[i].idxs)]

LastRes(i) == IF Len(last[i].ress) = 0 THEN "" ELSE last[i].ress[Len(last[i].ress)]

FirstIdx(i) == last[i].idxs[1]

\* C1: memoryful Sequence.  When the child at index i returns Running, the
\* Sequence returns Running with its cursor still at i; and the tick of the
\* Sequence after a tick whose last child i returned Running ticks child i
\* first and no child of a smaller index.
C1_SequenceResumesAtRunningChild ==
  \A s \in NodesOf("SequenceNode") :
    /\ LastRes(s) = "Running" =>
         /\ last[s].res = "Running"
         /\ current_child[s] = LastIdx(s)
    /\ (last[s].ticked /\ last[s].prev_res = "Running") =>
         /\ Len(last[s].idxs) > 0
         /\ FirstIdx(s) = last[s].prev_idx
         /\ \A k \in 1..Len(last[s].idxs) : last[s].idxs[k] >= last[s].prev_idx

\* A Sequence was left Running by a child of index >= 1, and its next tick
\* has resumed at that child.
C1_Witness ==
  \E s \in NodesOf("SequenceNode") :
    /\ last[s].prev_res = "Running"
    /\ last[s].prev_idx >= 1
    /\ FirstIdx(s) = last[s].prev_idx
    /\ last[s].res = "Success"

\* C2: memoryful Sequence.  When the child at index i returns Fail, the
\* Sequence returns Fail and retains its cursor at i, and its next tick
\* starts at the child that failed.
C2_SequenceRetainsCursorOnFail ==
  \A s \in NodesOf("SequenceNode") :
    /\ LastRes(s) = "Fail" =>
         /\ last[s].res = "Fail"
         /\ current_child[s] = LastIdx(s)
    /\ (last[s].ticked /\ last[s].prev_res = "Fail") =>
         /\ Len(last[s].idxs) > 0
         /\ FirstIdx(s) = last[s].prev_idx

\* C3: memoryful Fallback.  When the child at index i returns Running, the
\* Fallback returns Running, and the next tick of the Fallback starts at the
\* same index i.
C3_FallbackResumesAtRunningChild ==
  \A f \in NodesOf("FallbackNode") :
    /\ LastRes(f) = "Running" => last[f].res = "Running"
    /\ (last[f].ticked /\ last[f].prev_res = "Running") =>
         /\ Len(last[f].idxs) > 0
         /\ FirstIdx(f) = last[f].prev_idx

\* C4: memoryful Fallback.  When the child at index i returns Success, the
\* Fallback returns Success, child i is the last child it ticks in that
\* tick, and its cursor stays at i.
C4_FallbackRetainsCursorOnSuccess ==
  \A f \in NodesOf("FallbackNode") :
    \A k \in 1..Len(last[f].ress) :
      last[f].ress[k] = "Success" =>
        /\ last[f].res = "Success"
        /\ k = Len(last[f].ress)
        /\ current_child[f] = last[f].idxs[k]

\* C5: after any tick of the tree, returned or thrown, the context's port-map
\* table and children are those that were current before the call; and so
\* for the tick of every container in it.
C5_ContextPointersRestored ==
  /\ context.blackboard_map = NewContext(bb).blackboard_map
  /\ context.child_nodes = NewContext(bb).child_nodes
  /\ \A k \in 1..Len(log) :
       /\ log[k].ctx_out.blackboard_map = log[k].ctx_in.blackboard_map
       /\ log[k].ctx_out.child_nodes = log[k].ctx_in.child_nodes

\* A tick has thrown from a node three containers below the root, and every
\* container on the way up has been left.
C5_Witness ==
  /\ op = "tick_node"
  /\ IsErr(result)
  /\ Len(log) >= 4
  /\ \E k \in 1..Len(log) :
       /\ IsErr(log[k].res)
       /\ log[k].ctx_in.child_nodes # 1
       /\ log[k].ctx_in.child_nodes # nullptr
       /\ ~IsChildOf(tree, 1, log[k].ctx_in.child_nodes)
  /\ log[Len(log)].node = 1

\* The entries of the log for SubtreeNode containers.
SubtreeEntries == {k \in 1..Len(log) : tree[log[k].node].node = "SubtreeNode"}

\* C6: when a node inside a subtree raises, then once the error has reached
\* the driver the context's blackboard is the parent blackboard again and the
\* SubtreeNode holds the local blackboard its subtree ran on.
C6_SubtreeSwapExceptionSafe ==
  \A k \in SubtreeEntries :
    (op = "tick_node" /\ IsErr(log[k].res)) =>
      /\ log[k].ctx_out.blackboard = log[k].ctx_in.blackboard
      /\ context.blackboard = log[k].ctx_in.blackboard
      /\ blackboard[log[k].node] = EntryOf(log, tree[log[k].node].child_nodes[1]).ctx_out.blackboard

\* The parent blackboard variables that the call site of SubtreeNode i maps
\* its Output and InOut parameters to.
OutVars(i) ==
  {tree[i].blackboard_map[tree[i].params[j].key].first :
     j \in {j \in 1..Len(tree[i].params) :
              /\ tree[i].params[j].ty \in {"Output", "InOut"}
              /\ tree[i].params[j].key \in DOMAIN tree[i].blackboard_map
              /\ tree[i].blackboard_map[tree[i].params[j].key].index = 0}}

\* C7: after a SubtreeNode tick returns, every Output or InOut parameter that
\* has a value in the local blackboard has that value in the parent
\* blackboard variable the call site maps it to.
C7_SubtreeCopiesOutputs ==
  \A k \in SubtreeEntries :
    log[k].res \in BehaviorResult =>
      \A j \in 1..Len(tree[log[k].node].params) :
        LET param == tree[log[k].node].params[j]
            bbmap == tree[log[k].node].blackboard_map
        IN (/\ param.ty \in {"Output", "InOut"}
            /\ param.key \in DOMAIN blackboard[log[k].node]
            /\ param.key \in DOMAIN bbmap
            /\ bbmap[param.key].index = 0) =>
             /\ bbmap[param.key].first \in DOMAIN log[k].ctx_out.blackboard
             /\ log[k].ctx_out.blackboard[bbmap[param.key].first] =
                  blackboard[log[k].node][param.key]

\* C8: what ctx.set wrote during a tick is in the driver's blackboard after
\* tick_node returns: every variable of the context's blackboard is in bb
\* with the same value.
C8_WritesReachDriverBlackboard ==
  (op = "tick_node" /\ result \in BehaviorResult) =>
    \A v \in DOMAIN context.blackboard :
      v \in DOMAIN bb /\ bb[v] = context.blackboard[v]

\* The container that owns container c as a child (0 for the root).
ParentOf(c) ==
  IF \E p \in Ids(tree) : IsChildOf(tree, p, c)
  THEN CHOOSE p \in Ids(tree) : IsChildOf(tree, p, c)
  ELSE 0

\* C9: within one tick, once a node returns Running, the node that ticked it
\* ticks no further child and returns Running itself, so the root returns
\* Running.
C9_RunningUnwinds ==
  op = "tick_node" =>
    \A k \in 1..Len(log) :
      (log[k].res = "Running" /\ ParentOf(log[k].node) # 0) =>
        /\ EntryOf(log, ParentOf(log[k].node)).res = "Running"
        /\ \A m \in (k + 1)..Len(log) :
             ParentOf(log[m].node) # ParentOf(log[k].node)
        /\ result = "Running"

\* C10: subtree isolation.  After a SubtreeNode tick returns, every variable
\* of the parent blackboard other than those its Output and InOut parameters
\* are mapped to is as it was before the tick: absent if it was absent, and
\* with the same value otherwise.
C10_SubtreeIsolation ==
  \A k \in SubtreeEntries :
    log[k].res \in BehaviorResult =>
      \A v \in ((DOMAIN log[k].ctx_in.blackboard) \cup (DOMAIN log[k].ctx_out.blackboard)
                  \cup (DOMAIN blackboard[log[k].node])) \ OutVars(log[k].node) :
        /\ v \in DOMAIN log[k].ctx_in.blackboard <=> v \in DOMAIN log[k].ctx_out.blackboard
        /\ v \in DOMAIN log[k].ctx_in.blackboard =>
             log[k].ctx_out.blackboard[v] = log[k].ctx_in.blackboard[v]

\* A node inside the subtree has written a variable that is no parameter in
\* this tick, the SubtreeNode has returned, and the parent blackboard, which
\* holds another variable, does not have the one written.
C10_Witness ==
  \E k \in SubtreeEntries :
    /\ log[k].res \in BehaviorResult
    /\ \E m \in 1..(k - 1) :
         /\ tree[log[m].node].node = "SetBoolNode"
         /\ log[m].res = "Success"
         /\ "loc" \in DOMAIN log[m].ctx_out.blackboard
         /\ "loc" \notin DOMAIN log[m].ctx_in.blackboard
    /\ "loc" \in DOMAIN blackboard[log[k].node]
    /\ "loc" \notin DOMAIN log[k].ctx_out.blackboard
    /\ "y" \in DOMAIN log[k].ctx_out.blackboard

\* The containers below container i in tree t.
RECURSIVE Below(_, _)
Below(t, i) ==
  UNION {{t[i].child_nodes[k]} \cup Below(t, t[i].child_nodes[k]) :
           k \in 1..Len(t[i].child_nodes)}

\* The names that the port maps of the containers outside the subtree of
\* SubtreeNode i give to blackboard variables, the call site of i included.
ParentVars(i) ==
  {tree[j].blackboard_map[p].first :
     <<j, p>> \in {<<j, p>> \in (Ids(tree) \ Below(tree, i)) \X
                                  {"p", "q", "n", "value", "output", "count"} :
                     /\ p \in DOMAIN tree[j].blackboard_map
                     /\ tree[j].blackboard_map[p].index = 0}}

\* C11: on each SubtreeNode tick, every Input or InOut parameter whose
\* call-site port resolves to a value is in the blackboard that the subtree
\* root is ticked with, under the parameter's own name and with that value;
\* and that blackboard holds no variable of the parent blackboard.
C11_SubtreeCopiesInputsOnly ==
  \A k \in SubtreeEntries :
    LET i == log[k].node
        root == EntryOf(log, tree[i].child_nodes[1])
    IN /\ \A j \in 1..Len(tree[i].params) :
            LET param == tree[i].params[j]
                value == Context_get(tree, ContainerEnter(log[k].ctx_in, i), param.key)
            IN (param.ty \in {"Input", "InOut"} /\ value # nullopt) =>
                 /\ param.key \in DOMAIN root.ctx_in.blackboard
                 /\ root.ctx_in.blackboard[param.key] = value
       /\ \A v \in DOMAIN root.ctx_in.blackboard : v \notin ParentVars(i)

\* What the port of the last direct call is mapped to: "absent", "Input",
\* "Output", "InOut" or "literal".
CallPort ==
  LET bbmap == tree[call.ctx_in.blackboard_map].blackboard_map IN
    IF call.port_name \notin DOMAIN bbmap THEN "absent"
    ELSE IF bbmap[call.port_name].index = 1 THEN "literal"
    ELSE bbmap[call.port_name].second

\* The variable that the port of the last direct call is mapped to.
CallVar == tree[call.ctx_in.blackboard_map].blackboard_map[call.port_name].first

\* C12: ctx.set(port, value) raises UndefinedPort, WriteToInputPort or
\* WriteToLiteral when the port is absent from the port map, mapped to an
\* Input variable or mapped to a literal, and then leaves the blackboard as
\* it was; otherwise it sets the mapped variable to the value, creating it
\* when missing, and changes no other variable.
C12_SetRaisesOrWritesMapped ==
  call.fn = "set" =>
    /\ CallPort = "absent" =>
         result = "undefined_port_error" /\ context = call.ctx_in
    /\ CallPort = "Input" =>
         result = "write_input_port_error" /\ context = call.ctx_in
    /\ CallPort = "literal" =>
         result = "write_to_literal_error" /\ context = call.ctx_in
    /\ CallPort \in {"Output", "InOut"} =>
         /\ result = ""
         /\ DOMAIN context.blackboard = (DOMAIN call.ctx_in.blackboard) \cup {CallVar}
         /\ context.blackboard[CallVar] = call.value
         /\ \A v \in (DOMAIN call.ctx_in.blackboard) \ {CallVar} :
              context.blackboard[v] = call.ctx_in.blackboard[v]

\* ctx.set has created the variable its port is mapped to in a blackboard
\* that holds another variable.
C12_Witness ==
  /\ call.fn = "set"
  /\ CallPort \in {"Output", "InOut"}
  /\ CallVar \notin DOMAIN call.ctx_in.blackboard
  /\ call.ctx_in.blackboard # EmptyMap
  /\ context.blackboard[CallVar] = call.value

\* C13: ctx.get(port) never raises and never changes the blackboard; it
\* returns absent when the port is not in the port map, is mapped to an
\* Output variable, or is mapped to a variable that the blackboard does not
\* hold; the literal text when the port is mapped to a literal; and otherwise
\* the blackboard value of the mapped variable.
C13_GetNeverRaises ==
  call.fn = "get" =>
    /\ ~IsErr(result)
    /\ context = call.ctx_in
    /\ CallPort \in {"absent", "Output"} => result = nullopt
    /\ CallPort = "literal" =>
         result = tree[call.ctx_in.blackboard_map].blackboard_map[call.port_name].literal
    /\ CallPort \in {"Input", "InOut"} =>
         IF CallVar \in DOMAIN context.blackboard
         THEN result = context.blackboard[CallVar]
         ELSE result = nullopt

\* ctx.get has read, through an InOut port, a value that an earlier ctx.set
\* wrote.
C13_Witness ==
  /\ call.fn = "get"
  /\ CallPort = "InOut"
  /\ CallVar \in DOMAIN context.blackboard
  /\ result = <<"2">>

\* What entry e of the log read from port port_name when its node was
\* ticked: Context::get on the context that the node's tick was given.
ReadBy(e, port_name) == Context_get(tree, ContainerEnter(e.ctx_in, e.node), port_name)

\* Entry e of the log is a SetBool that has written variable x.
Wrote(e, x) ==
  /\ tree[e.node].node = "SetBoolNode"
  /\ e.res = "Success"
  /\ ReadBy(e, "value") # nullopt
  /\ "output" \in DOMAIN tree[e.node].blackboard_map
  /\ tree[e.node].blackboard_map["output"].first = x

\* C14: within one tick, after a node has written value v through an output
\* port mapped to variable x, a sibling ticked later that reads an input port
\* mapped to x gets v (no other node having written x in between), whether
\* or not the blackboard held x before the write.
C14_SiblingReadsWrittenValue ==
  \A w \in 1..Len(log) : \A r \in (w + 1)..Len(log) :
    \A x \in VarsOf(tree) :
      (/\ Wrote(log[w], x)
       /\ ParentOf(log[w].node) = ParentOf(log[r].node)
       /\ "value" \in DOMAIN tree[log[r].node].blackboard_map
       /\ tree[log[r].node].blackboard_map["value"] = Variable(x, "Input")
       /\ \A k \in (w + 1)..(r - 1) : ~Wrote(log[k], x)) =>
        /\ ReadBy(log[r], "value") # nullopt
        /\ ReadBy(log[r], "value") = ReadBy(log[w], "value")

\* A SetBool has created x, which the blackboard did not hold, and the next
\* sibling has read it and written the value to y.
C14_Witness ==
  \E w \in 1..Len(log) : \E r \in (w + 1)..Len(log) :
    /\ Wrote(log[w], "x")
    /\ "x" \notin DOMAIN log[w].ctx_in.blackboard
    /\ ParentOf(log[w].node) = ParentOf(log[r].node)
    /\ tree[log[r].node].blackboard_map["value"] = Variable("x", "Input")
    /\ log[r].ctx_out.blackboard["y"] = <<"7">>

\* The text is a decimal integer: digits only, and at least one.
IsDecimal(text) == Len(text) > 0 /\ \A k \in 1..Len(text) : IsDigit(text[k])

\* Container i has a port n mapped to the literal text of a decimal integer
\* that is at least 1.
HasCount(i) ==
  /\ "n" \in DOMAIN tree[i].blackboard_map
  /\ tree[i].blackboard_map["n"].index = 1
  /\ IsDecimal(tree[i].blackboard_map["n"].literal)
  /\ atoi(tree[i].blackboard_map["n"].literal) >= 1

\* The integer N that port n of container i gives.
CountOf(i) == atoi(tree[i].blackboard_map["n"].literal)

\* C15: Repeat with port n = N >= 1 over a child that returns Success on
\* every tick.  Each of the ticks 1..N-1 of a run ticks the child once and
\* returns Running; tick N returns Success without ticking the child, so the
\* child has been ticked N-1 times; and the tick after that starts a new run,
\* of which the same holds.
C15_RepeatCountsTicks ==
  \A r \in NodesOf("RepeatNode") :
    (HasCount(r) /\ run[r].ticks >= 1 /\ run[r].clean) =>
      IF run[r].ticks < CountOf(r)
      THEN /\ last[r].res = "Running"
           /\ last[r].idxs = <<0>>
           /\ run[r].child = run[r].ticks
           /\ ~run[r].over
      ELSE /\ run[r].ticks = CountOf(r)
           /\ last[r].res = "Success"
           /\ last[r].idxs = <<>>
           /\ run[r].child = CountOf(r) - 1
           /\ run[r].over

\* A Repeat with n = 3 has finished its second run: its third tick has
\* returned Success after two ticks of the child.
C15_Witness ==
  \E r \in NodesOf("RepeatNode") :
    /\ HasCount(r) /\ CountOf(r) = 3
    /\ run[r].number = 2
    /\ run[r].clean
    /\ run[r].ticks = 3
    /\ run[r].child = 2
    /\ last[r].res = "Success"

\* C16: a Repeat or a Retry whose port n is missing, or has a value that is
\* not a decimal integer, raises InvalidCount and does not tick its child.
C16_InvalidCountRaises ==
  \A k \in 1..Len(log) :
    (/\ tree[log[k].node].node \in {"RepeatNode", "RetryNode"}
     /\ (ReadBy(log[k], "n") = nullopt \/ ~IsDecimal(ReadBy(log[k], "n")))) =>
      /\ log[k].res = "invalid_count_error"
      /\ ChildEntries(tree, log, log[k].node) = <<>>

\* C17: when the child of a Retry returns Success, the Retry returns Success
\* in that tick and resets its counter, so that its next tick starts a new
\* run from n; when the child returns Running, the Retry returns Running.
C17_RetrySucceedsAndResets ==
  \A r \in NodesOf("RetryNode") :
    /\ LastRes(r) = "Success" => (last[r].res = "Success" /\ n[r] = 0)
    /\ LastRes(r) = "Running" => last[r].res = "Running"
    /\ (last[r].ticked /\ last[r].prev_res = "Success" /\ HasCount(r)) =>
         IF CountOf(r) = 1
         THEN last[r].res = "Success" /\ last[r].idxs = <<>> /\ n[r] = 0
         ELSE /\ last[r].idxs = <<0>>
              /\ IF LastRes(r) = "Success" THEN n[r] = 0 ELSE n[r] = CountOf(r) - 1

\* The child of a Retry with n = 3 returned Success, and in the next tick
\* the Retry has started a new run: its child has failed, it has returned
\* Running and two attempts remain.
C17_Witness ==
  \E r \in NodesOf("RetryNode") :
    /\ HasCount(r) /\ CountOf(r) = 3
    /\ last[r].prev_res = "Success"
    /\ LastRes(r) = "Fail"
    /\ last[r].res = "Running"
    /\ n[r] = 2

\* C18: each tick of an If node ticks the condition (child 0) first.  When
\* the condition returns Fail, child 2 is ticked and its result returned if
\* it exists, Fail is returned otherwise, and child 1 is not ticked; when the
\* condition returns Success, child 1 is ticked and its result returned, and
\* child 2 is not ticked.  At most one branch is ticked.
C18_IfTicksOneBranch ==
  \A i \in NodesOf("IfNode") :
    last[i].ticked =>
      /\ Len(last[i].idxs) \in {1, 2}
      /\ last[i].idxs[1] = 0
      /\ last[i].ress[1] = "Fail" =>
           IF Len(tree[i].child_nodes) > 2
           THEN last[i].idxs = <<0, 2>> /\ last[i].res = last[i].ress[2]
           ELSE last[i].idxs = <<0>> /\ last[i].res = "Fail"
      /\ last[i].ress[1] = "Success" =>
           last[i].idxs = <<0, 1>> /\ last[i].res = last[i].ress[2]

\* The condition of an If node without else has failed, and the If node has
\* returned Fail without ticking its then branch.
C18_Witness ==
  \E i \in NodesOf("IfNode") :
    /\ Len(tree[i].child_nodes) = 2
    /\ last[i].ticked
    /\ last[i].ress = <<"Fail">>
    /\ last[i].res = "Fail"

\* C19: a ReactiveSequence or a ReactiveFallbackStar with at least one child
\* ticks child 0 first in every tick, whatever its earlier ticks returned:
\* it keeps no cursor.
C19_ReactiveRestartsAtFirstChild ==
  \A i \in NodesOf("ReactiveSequenceNode") \cup NodesOf("ReactiveFallbackNode") :
    (last[i].ticked /\ Len(tree[i].child_nodes) >= 1) =>
      /\ Len(last[i].idxs) >= 1
      /\ FirstIdx(i) = 0
      /\ current_child[i] = 0

\* The last child that a ReactiveSequence ticked in its previous tick was
\* child 1 or a later one, which returned Running, and this tick has started
\* at child 0.
C19_Witness ==
  \E i \in NodesOf("ReactiveSequenceNode") :
    /\ last[i].ticked
    /\ last[i].prev_idx >= 1
    /\ last[i].prev_res = "Running"
    /\ FirstIdx(i) = 0

\* The Print node of CountDownTree has been ticked in the last tick_node call.
PrintTicked == 3 \in Ticked(log)

\* C20 as stated: for Sequence { CountDown(count <- "3")  Print } the driver
\* ticks four times; ticks 1 to 3 return Running, tick 4 returns Success, and
\* Print is ticked exactly once (in tick 4).
C20_CountDownFourTicks ==
  (tree = CountDownTree /\ op = "tick_node") =>
    /\ ticks \in 1..3 => (result = "Running" /\ ~PrintTicked)
    /\ ticks = 4 => (result = "Success" /\ PrintTicked)

\* C20 amended: for Sequence { CountDown(count <- "3")  Print } the driver
\* ticks three times; ticks 1 and 2 return Running, tick 3 returns Success,
\* and Print is ticked exactly once (in tick 3).
C20_CountDownThreeTicks ==
  (tree = CountDownTree /\ op = "tick_node") =>
    /\ ticks \in 1..2 => (result = "Running" /\ ~PrintTicked)
    /\ ticks = 3 => (result = "Success" /\ PrintTicked)

\* The third tick of CountDownTree has returned Success: the count is 0 and
\* Print has been ticked.
C20_Witness ==
  /\ tree = CountDownTree
  /\ ticks = 3
  /\ result = "Success"
  /\ PrintTicked
  /\ count[2] = 0

\* Number of children that returned Success in the most recent tick of
\* container i.
Successes(i) == Cardinality({k \in 1..Len(last[i].ress) : last[i].ress[k] = "Success"})

\* The most recent tick of container i advanced past its last child: the
\* child of the largest index returned Success.
AdvancedPastLast(i) ==
  /\ Len(last[i].idxs) > 0
  /\ LastIdx(i) = Len(tree[i].child_nodes) - 1
  /\ LastRes(i) = "Success"

\* C21: memoryful Sequence.  In a tick in which no child returns Fail, the
\* cursor ends at 0 when the tick advanced past the last child, and otherwise
\* ends at the cursor the tick started from plus the number of children that
\* returned Success, which is never smaller; and the tick after one whose
\* last child returned Success starts from cursor 0, the tick after one whose
\* last child returned Running starts from the cursor of that child.
C21_SequenceCursorMonotone ==
  \A s \in NodesOf("SequenceNode") :
    (last[s].ticked /\ \A k \in 1..Len(last[s].ress) : last[s].ress[k] # "Fail") =>
      /\ AdvancedPastLast(s) => current_child[s] = 0
      /\ ~AdvancedPastLast(s) =>
           /\ current_child[s] = last[s].cursor_in + Successes(s)
           /\ current_child[s] >= last[s].cursor_in
           /\ current_child[s] < Len(tree[s].child_nodes)
      /\ (current_child[s] < last[s].cursor_in) <=> (AdvancedPastLast(s) /\ last[s].cursor_in > 0)
      /\ last[s].prev_res = "Success" => last[s].cursor_in = 0
      /\ last[s].prev_res = "Running" => last[s].cursor_in = last[s].prev_idx

\* A Sequence resumed from a cursor above 0, no child failed, the last child
\* returned Success and the cursor is back at 0.
C21_Witness ==
  \E s \in NodesOf("SequenceNode") :
    /\ last[s].ticked
    /\ \A k \in 1..Len(last[s].ress) : last[s].ress[k] # "Fail"
    /\ last[s].cursor_in > 0
    /\ AdvancedPastLast(s)
    /\ current_child[s] = 0
    /\ last[s].res = "Success"

\* The ticks that log records for containers owning an InverterNode.
InverterEntries == {k \in 1..Len(log) : tree[log[k].node].node = "InverterNode"}

\* The result that log records for the first child of the container of
\* entry k.
ChildRes(k) == EntryOf(log, tree[log[k].node].child_nodes[1]).res

\* C22: Inverter.  An Inverter without a child returns Fail; an Inverter
\* with a child returns Fail when the child returned Success, Success when it
\* returned Fail and Running when it returned Running; and an Inverter whose
\* child is an Inverter over a user node that returned Success or Fail
\* returns what the user node returned.
C22_InverterInvolution ==
  \A k \in InverterEntries :
    LET i == log[k].node IN
      /\ Len(tree[i].child_nodes) = 0 => log[k].res = "Fail"
      /\ (Len(tree[i].child_nodes) > 0 /\ ChildRes(k) = "Success") => log[k].res = "Fail"
      /\ (Len(tree[i].child_nodes) > 0 /\ ChildRes(k) = "Fail") => log[k].res = "Success"
      /\ (Len(tree[i].child_nodes) > 0 /\ ChildRes(k) = "Running") => log[k].res = "Running"
      /\ \A j \in InverterEntries :
           LET c == log[j].node IN
             (/\ Len(tree[i].child_nodes) > 0
              /\ tree[i].child_nodes[1] = c
              /\ Len(tree[c].child_nodes) > 0
              /\ tree[tree[c].child_nodes[1]].node = "Leaf"
              /\ ChildRes(j) \in {"Success", "Fail"})
             => log[k].res = ChildRes(j)

\* One tick_node call in which two stacked Inverters returned the Success of
\* the user node under them and the Inverter without a child returned Fail.
C22_Witness ==
  /\ \E k \in InverterEntries, j \in InverterEntries :
       /\ Len(tree[log[k].node].child_nodes) > 0
       /\ tree[log[k].node].child_nodes[1] = log[j].node
       /\ ChildRes(j) = "Success"
       /\ log[j].res = "Fail"
       /\ log[k].res = "Success"
  /\ \E k \in InverterEntries :
       /\ Len(tree[log[k].node].child_nodes) = 0
       /\ log[k].res = "Fail"

\* The containers of the loaded tree c: c and the containers below it.
RECURSIVE ContainersOf(_)
ContainersOf(c) ==
  {c} \cup UNION {ContainersOf(c.child_nodes[k]) : k \in 1..Len(c.child_nodes)}

\* The node type names that TreeDef def refers to.
RECURSIVE NamesOf(_)
NamesOf(def) == {def.name} \cup UNION {NamesOf(def.children[k]) : k \in 1..Len(def.children)}

\* C23: loader.  In a loaded tree, every container whose name is the name of
\* a tree of the source owns a SubtreeNode whose params are the declared
\* ports of that tree, and has exactly one child, the loaded root of that
\* tree, whatever children the call had and whether or not the registry has
\* the name.
C23_SubtreeCallLoadsTreeRoot ==
  LET TreeNamed(name) ==
        trees[CHOOSE k \in 1..Len(trees) :
                /\ trees[k].name = name
                /\ \A j \in 1..(k - 1) : trees[j].name # name]
  IN loaded.outcome = "tree" =>
    \A c \in ContainersOf(loaded.tree) :
      (\E k \in 1..Len(trees) : trees[k].name = c.name) =>
        /\ c.node = "SubtreeNode"
        /\ c.params = [k \in 1..Len(TreeNamed(c.name).ports) |->
                         PortSpec(TreeNamed(c.name).ports[k].direction,
                                  TreeNamed(c.name).ports[k].name)]
        /\ Len(c.child_nodes) = 1
        /\ c.child_nodes[1].name = TreeNamed(c.name).node.name
        /\ c.child_nodes[1] = load_recurse(TreeNamed(c.name).node, trees, node_types, {}).tree

\* The root of main is a call of sub with children, sub declares ports and
\* the registry has a constructor named sub; the tree is loaded, and its root
\* is a SubtreeNode with the two ports and one child, the root of sub.
C23_Witness ==
  /\ loaded.outcome = "tree"
  /\ trees[1].node.name = "sub"
  /\ Len(trees[1].node.children) > 0
  /\ "sub" \in DOMAIN node_types
  /\ loaded.tree.node = "SubtreeNode"
  /\ Len(loaded.tree.params) = 2
  /\ Len(loaded.tree.child_nodes) = 1
  /\ loaded.tree.child_nodes[1].name = trees[2].node.name

\* C24: loader.  load throws undefined_node_error, naming the node, whenever
\* a TreeDef of the source refers to a node type that is neither the name of
\* a tree nor a key of the registry; it returns a tree when the source has a
\* tree main and refers to no such node type; and it returns std::nullopt
\* when the source has no tree main.
C24_LoadChecksEveryNode ==
  loaded.outcome # "" =>
    LET tree_names == {trees[k].name : k \in 1..Len(trees)}
        undefined == UNION {NamesOf(trees[k].node) : k \in 1..Len(trees)}
                       \ (tree_names \cup DOMAIN node_types)
    IN /\ undefined # {} =>
            /\ loaded.outcome = "undefined_node_error"
            /\ loaded.name \in undefined
       /\ ("main" \in tree_names /\ undefined = {}) => loaded.outcome = "tree"
       /\ "main" \notin tree_names => loaded.outcome = "nullopt"

\* C25: registry.  A container of a loaded tree whose name was emplaced in
\* the registry owns a node made by the constructor that the last emplace
\* call with that name gave.
C25_EmplaceReplaces ==
  loaded.outcome = "tree" =>
    \A c \in ContainersOf(loaded.tree) :
      \A k \in 1..Len(emplaced) :
        (/\ c.node # "SubtreeNode"
         /\ emplaced[k][1] = c.name
         /\ \A j \in (k + 1)..Len(emplaced) : emplaced[j][1] # c.name)
        => c.node = emplaced[k][2]

\* C26: port_map.  A port name followed by "<->" and a variable name or a
\* string literal parses to a PortMap of type InOut, followed by "<-" to one
\* of type Input, and followed by "->" to one of type Output.
C26_ArrowsParse ==
  LET ValueAt(i) == identifier(i).index = 0 \/ string_literal(i).index = 0
      Arrow(r) ==
        /\ (substr(r, 0, 3) = <<"<", "-", ">">> /\ ValueAt(substr(r, 3, npos))) =>
             (parsed.res.index = 0 /\ parsed.res.second.ty = "InOut")
        /\ (substr(r, 0, 2) = <<"<", "-">> /\ substr(r, 0, 3) # <<"<", "-", ">">> /\ ValueAt(substr(r, 2, npos))) =>
             (parsed.res.index = 0 /\ parsed.res.second.ty = "Input")
        /\ (substr(r, 0, 2) = <<"-", ">">> /\ ValueAt(substr(r, 2, npos))) =>
             (parsed.res.index = 0 /\ parsed.res.second.ty = "Output")
      Named(res) == res.index = 0 => Arrow(space(res.first).first)
  IN parsed.fn = "port_map" => Named(identifier(input))

\* C27: var-desugaring.  The TreeDef parsed from a block has a VarDef for
\* each var element, in order, and its children are the SetBool nodes of the
\* var elements that have an initialiser followed by the nodes of the block
\* in order: every SetBool comes before all the other children, and a var
\* without initialiser adds no child.
C27_SetBoolBeforeOtherChildren ==
  LET ElemsOf(block) ==
        [k \in 1..Len(block) |-> parser("parse_tree_child", block[k]).second]
      Placed(def, inits, defs, var_defs) ==
        /\ def.vars = [k \in 1..Len(var_defs) |-> var_defs[k].value]
        /\ Len(def.children) = Len(inits) + Len(defs)
        /\ \A k \in 1..Len(inits) : \E j \in 1..Len(inits) :
             def.children[j] = tree_def_with_ports(inits[k].value.name, inits[k].value.init.value)
        /\ \A k \in 1..Len(defs) : def.children[Len(inits) + k] = defs[k].value
      Parsed(es) ==
        /\ parsed.res.index = 0
        /\ parsed.res.second.index = 0
        /\ Placed(parsed.res.second.value,
                  SelectSeq(es, LAMBDA e : e.index = 1 /\ e.value.init.has_value),
                  SelectSeq(es, LAMBDA e : e.index = 0),
                  SelectSeq(es, LAMBDA e : e.index = 1))
  IN (parsed.fn = "parse_tree_child" /\ substr(input, 0, 8) = <<"S", "e", "q", "u", "e", "n", "c", "e">>) =>
       \A elems \in Blocks : input = BlockText(<<"S", "e", "q", "u", "e", "n", "c", "e">>, elems) => Parsed(ElemsOf(elems))

\* C28: if-desugaring.  if (cond) { A } else { B } parses to a TreeDef named
\* if whose children are cond, a Sequence holding A and a Sequence holding
\* B, in this order; without the else branch the children are cond and the
\* Sequence holding A.  The Sequence holding a block is what
\* Sequence { block } parses to.
C28_IfDesugaring ==
  LET DefOf(text) == parser("parse_tree_node", text).second
      Desugared(def, cond, A, has_else, B) ==
        /\ def.name = <<"i", "f">>
        /\ def.port_maps = <<>>
        /\ Len(def.children) = IF has_else THEN 3 ELSE 2
        /\ def.children[1] = DefOf(cond)
        /\ def.children[2].name = <<"S", "e", "q", "u", "e", "n", "c", "e">>
        /\ def.children[2] = DefOf(BlockText(<<"S", "e", "q", "u", "e", "n", "c", "e">>, A))
        /\ has_else => def.children[3].name = <<"S", "e", "q", "u", "e", "n", "c", "e">>
        /\ has_else => def.children[3] = DefOf(BlockText(<<"S", "e", "q", "u", "e", "n", "c", "e">>, B))
  IN (parsed.fn = "parse_tree_child" /\ substr(input, 0, 4) = <<"i", "f", " ", "(">>) =>
       \A cond \in Conditions, has_else \in BOOLEAN :
         \A A, B \in {b \in Blocks : Len(b) <= 1} :
           input = IfText(cond, A, has_else, B) =>
             /\ parsed.res.index = 0
             /\ parsed.res.first = <<>>
             /\ parsed.res.second.index = 0
             /\ Desugared(parsed.res.second.value, cond, A, has_else, B)

\* if (c) { a } else { b(p <- x) } was parsed: three children, c, the
\* Sequence of a and the Sequence of b(p <- x).
C28_Witness ==
  /\ parsed.fn = "parse_tree_child"
  /\ input = IfText(<<"c">>, <<<<"a">>>>, TRUE, <<<<"b", "(", "p", " ", "<", "-", " ", "x", ")">>>>)
  /\ parsed.res.index = 0
  /\ Len(parsed.res.second.value.children) = 3
  /\ parsed.res.second.value.children[1].name = <<"c">>
  /\ parsed.res.second.value.children[2].children[1].name = <<"a">>
  /\ parsed.res.second.value.children[3].children[1].name = <<"b">>

\* C29: parsers.  The call of a parser yields an IResult, which holds the
\* remaining view and the value or holds an error message, and string_literal
\* yields an error message for a text that opens a string with a double quote
\* and has no second double quote.
C29_ParsersNeverThrow ==
  parsed.fn # "" =>
    /\ parsed.res.index \in {0, 1}
    /\ (/\ parsed.fn = "string_literal"
        /\ substr(space(input).first, 0, 1) = <<"\"">>
        /\ \A k \in 1..Len(substr(space(input).first, 1, npos)) :
             substr(space(input).first, 1, npos)[k] # "\"")
       => parsed.res.index = 1

\* C30: identifier.  For a text made of whitespace, then a letter or an
\* underscore followed by letters, digits and underscores, and then nothing
\* or a character that is none of these, identifier yields the text after
\* the name as the remaining view and the name as the value.
C30_IdentifierRoundTrip ==
  LET IdentChar(c) == isalpha(c) \/ IsDigit(c) \/ c = "_"
  IN parsed.fn = "identifier" =>
       \A a \in 0..Len(input) : \A b \in (a + 1)..Len(input) :
         (/\ \A k \in 1..a : IsSpace(input[k])
          /\ isalpha(input[a + 1]) \/ input[a + 1] = "_"
          /\ \A k \in (a + 2)..b : IdentChar(input[k])
          /\ b < Len(input) => ~IdentChar(input[b + 1]))
         => parsed.res = Res(SubSeq(input, b + 1, Len(input)), SubSeq(input, a + 1, b))

\* identifier was applied to a space, the name a1 and a character that ends
\* the name.
C30_Witness ==
  /\ parsed.fn = "identifier"
  /\ input = <<" ", "a", "1", "<">>
  /\ parsed.res = Res(<<"<">>, <<"a", "1">>)

\* C31: when the child of a Repeat returns Fail, the Repeat returns Fail in
\* that tick and resets its counter, so that its next tick starts a new run
\* from n: it ticks the child again, and n - 1 ticks remain unless the child
\* fails again.
C31_RepeatFailsAndResets ==
  \A r \in NodesOf("RepeatNode") :
    /\ LastRes(r) = "Fail" => (last[r].res = "Fail" /\ n[r] = 0)
    /\ (last[r].ticked /\ last[r].prev_res = "Fail" /\ HasCount(r)) =>
         /\ last[r].idxs = <<0>>
         /\ IF LastRes(r) = "Fail" THEN n[r] = 0 ELSE n[r] = CountOf(r) - 1

\* The child of a Repeat with n = 3 returned Fail, and in the next tick the
\* Repeat has started a new run: its child has returned Success, it has
\* returned Running and two ticks remain.
C31_Witness ==
  \E r \in NodesOf("RepeatNode") :
    /\ HasCount(r) /\ CountOf(r) = 3
    /\ last[r].prev_res = "Fail"
    /\ LastRes(r) = "Success"
    /\ last[r].res = "Running"
    /\ n[r] = 2

\* C32: Retry with port n = N >= 1 over a child that returns Fail on every
\* tick.  The Retry never returns Fail: each of the ticks 1..N-1 of a run
\* ticks the child once and returns Running, and tick N returns Success
\* without ticking the child.
C32_RetryGivesUpWithSuccess ==
  \A r \in NodesOf("RetryNode") :
    (HasCount(r) /\ run[r].ticks >= 1 /\ run[r].fails) =>
      /\ last[r].res # "Fail"
      /\ IF run[r].ticks < CountOf(r)
         THEN /\ last[r].res = "Running"
              /\ last[r].idxs = <<0>>
              /\ LastRes(r) = "Fail"
              /\ run[r].child = run[r].ticks
              /\ ~run[r].over
         ELSE /\ run[r].ticks = CountOf(r)
              /\ last[r].res = "Success"
              /\ last[r].idxs = <<>>
              /\ run[r].child = CountOf(r) - 1
              /\ run[r].over

\* The child of a Retry with n = 3 has failed twice, and the third tick of
\* the Retry has returned Success.
C32_Witness ==
  \E r \in NodesOf("RetryNode") :
    /\ HasCount(r) /\ CountOf(r) = 3
    /\ run[r].fails
    /\ run[r].ticks = 3
    /\ run[r].child = 2
    /\ last[r].res = "Success"
    /\ last[r].idxs = <<>>

\* C33: string_literal.  For a text made of whitespace, a double quote,
\* characters other than the double quote and a second double quote,
\* string_literal yields the characters between the two quotes as the value,
\* whitespace before the second quote included, and the text after the
\* second quote as the remaining view.
C33_StringLiteralBetweenQuotes ==
  parsed.fn = "string_literal" =>
    \A a \in 0..Len(input) : \A b \in (a + 2)..Len(input) :
      (/\ \A k \in 1..a : IsSpace(input[k])
       /\ input[a + 1] = "\""
       /\ \A k \in (a + 2)..(b - 1) : input[k] # "\""
       /\ input[b] = "\"")
      => parsed.res = Res(SubSeq(input, b + 1, Len(input)), SubSeq(input, a + 2, b - 1))

\* C34: a SequenceNode returns Success only when every one of its children
\* has returned Success since its cursor was last 0, and it ticks a child
\* only when every child before it has returned Success since then.
C34_SequenceSuccessNeedsAllChildren ==
  \A i \in NodesOf("SequenceNode") :
    /\ last[i].res = "Success" =>
         last[i].done = 0..(Len(tree[i].child_nodes) - 1)
    /\ \A k \in 1..Len(last[i].idxs) :
         \A j \in 0..(last[i].idxs[k] - 1) : j \in last[i].done

\* C35: between ticks the cursor of a FallbackNode with k >= 1 children is
\* in 0..k-1; every tick of it ticks at least one child, and it returns Fail
\* only when a child has returned Fail in that tick.
C35_FallbackCursorInRange ==
  \A i \in NodesOf("FallbackNode") :
    Len(tree[i].child_nodes) >= 1 =>
      /\ current_child[i] \in 0..(Len(tree[i].child_nodes) - 1)
      /\ last[i].ticked => Len(last[i].idxs) >= 1
      /\ (last[i].ticked /\ last[i].res = "Fail") =>
           \E k \in 1..Len(last[i].ress) : last[i].ress[k] = "Fail"

C37_SubtreeBlackboardPersists ==
  LET Kept(i, e, s) ==
        \A v \in DOMAIN s.prev_bb :
          /\ v \in DOMAIN s.bb_in
          /\ \/ s.bb_in[v] = s.prev_bb[v]
             \/ /\ \E k \in 1..Len(tree[i].params) :
                     tree[i].params[k].key = v /\ tree[i].params[k].ty \in {"Input", "InOut"}
                /\ ReadBy(e, v) # nullopt
                /\ s.bb_in[v] = ReadBy(e, v)
  IN \A i \in NodesOf("SubtreeNode") :
       (i \in Ticked(log) /\ tree[i].child_nodes[1] \in Ticked(log)) =>
         Kept(i, EntryOf(log, i), last[tree[i].child_nodes[1]])

\* C38: a Repeat with port n = N >= 1 decrements its counter on every tick
\* of a run, whatever its child returns: after tick j of a run that goes on
\* N - j ticks remain, the child has been ticked at most N - 1 times when the
\* run ends, and a run that reaches tick N returns Success there without
\* ticking the child, also when ticks of the child returned Running.
C38_RepeatCountsRunningTicks ==
  \A r \in NodesOf("RepeatNode") :
    (HasCount(r) /\ run[r].ticks >= 1) =>
      /\ run[r].ticks <= CountOf(r)
      /\ run[r].child <= CountOf(r) - 1
      /\ ~run[r].over => (n[r] = CountOf(r) - run[r].ticks /\ run[r].child = run[r].ticks)
      /\ run[r].ticks = CountOf(r) <=> last[r].res = "Success"
      /\ last[r].res = "Success" => (run[r].child = CountOf(r) - 1 /\ last[r].idxs = <<>>)

\* A Repeat with n = 3 has returned Success on its third tick after two
\* ticks of the child, of which one or both returned Running.
C38_Witness ==
  \E r \in NodesOf("RepeatNode") :
    /\ HasCount(r) /\ CountOf(r) = 3
    /\ run[r].ticks = 3
    /\ run[r].child = 2
    /\ ~run[r].clean
    /\ last[r].prev_res = "Running"
    /\ last[r].res = "Success"

\* C39: a Repeat or a Retry whose port n has a value that is an integer less
\* than or equal to 0 throws invalid_count_error and does not tick its child.
C39_NonPositiveCountRaises ==
  LET IsInteger(text) ==
        \/ IsDecimal(text)
        \/ Len(text) > 1 /\ text[1] = "-" /\ IsDecimal(Tail(text))
  IN \A k \in 1..Len(log) :
       (/\ tree[log[k].node].node \in {"RepeatNode", "RetryNode"}
        /\ ReadBy(log[k], "n") # nullopt
        /\ IsInteger(ReadBy(log[k], "n"))
        /\ atoi(ReadBy(log[k], "n")) <= 0) =>
         /\ log[k].res = "invalid_count_error"
         /\ ChildEntries(tree, log, log[k].node) = <<>>

\* C40: load ends for every source that has a tree main, also when a tree
\* names itself or trees name each other: it throws undefined_node_error or
\* returns a tree.
C40_LoadTerminates ==
  (loaded.outcome # "" /\ \E k \in 1..Len(trees) : trees[k].name = "main") =>
    loaded.outcome \in {"tree", "undefined_node_error"}

====
